---- MODULE Spec2Model ----
(* Edge60 match orchestration: matchmaking queue, connection registry,      *)
(* match lifecycle state machine, per-match timers and settlement.          *)
EXTENDS Integers, Sequences, FiniteSets, TLC

VARIABLES
  queues,         \* MatchmakingQueueClass.queues : key -> list of QueueEntry
  qLast,          \* record of the most recent findMatch call (observation)
  sock,           \* per connection: "new", "open", "closing", "done"
  players,        \* PlayerStoreClass.players : id -> ConnectedPlayer or None
  socketToPlayer, \* PlayerStoreClass.socketToPlayer : socket -> id or None
  matches,        \* MatchStore : match id -> Match or None
  matchCount,     \* number of match ids handed out so far (uuidv4)
  acceptedPlayers,\* MatchService.acceptedPlayers : match id -> set of ids
  proposalTimers, \* MatchService.proposalTimers : "none" / "armed" / "fired"
  activeTimers,   \* MatchService.activeTimers : match id -> timer handle or 0
  durPending,     \* duration timers scheduled and not yet fired or cleared
  timerCount,     \* per match: number of duration timers created so far
  settleTimers,   \* per match: pending 3 s settle callbacks
  inStart,        \* per match: startMatch calls awaiting engine.onStart
  inComplete,     \* per match: completeMatch calls awaiting engine.onComplete
  inSettle,       \* per match: settleMatch calls awaiting the ledger
  dataObjs,       \* per match: the matchData objects created by onStart
  ledger,         \* per match: submissions received by the settlement ledger
                  \* and the status of the call that resolved last
  sent,           \* events emitted by the most recent step
  \* -- engines and services --
  pred,           \* prediction engine: the match it runs (SpecPredict)
  duel,           \* trade-duel engine: the match it runs (SpecDuel)
  mem,            \* memory-match engine: the match it runs (SpecMemory)
  psvc,           \* price service: cache, clock and calls (SpecPrice)
  chain,          \* EdgeTreasury contract and the token balances (SpecTreasury)
  bridge,         \* settlement bridge and one match it settles (SpecBridge)
  host            \* one MatchStore record under handleGameAction calls

\* the state of the engines and services outside the orchestrator
auxVars == << pred, duel, mem, psvc, chain, bridge, host >>

\* the state of the orchestrator, its stores and the queue
coreVars == << queues, qLast, sock, players, socketToPlayer, matches,
               matchCount, acceptedPlayers, proposalTimers, activeTimers,
               durPending, timerCount, settleTimers, inStart, inComplete,
               inSettle, dataObjs, ledger, sent >>

vars == << queues, qLast, sock, players, socketToPlayer, matches, matchCount,
           acceptedPlayers, proposalTimers, activeTimers, durPending,
           timerCount, settleTimers, inStart, inComplete, inSettle, dataObjs,
           ledger, sent, auxVars >>

None == "none"

(***************************************************************************)
(* Bounds                                                                  *)
(***************************************************************************)
MaxMatches == 1      \* matches created in one run
MaxStarts == 2       \* startMatch invocations per match (lobby, race)
MaxStartsEnv == 1    \* startMatch invocations per match (complete environment)
MaxQueued == 3       \* entries the queue-only specification lets in at once

Conns == {"c1", "c2"}
EphId == [c \in Conns |-> IF c = "c1" THEN "e1" ELSE "e2"]
Wallets == {"w1"}

\* every address a JOIN_QUEUE can carry as walletAddress or as a session
\* reference starting with 0x
Addresses == Wallets \cup {"w2"}
Ids == {EphId[c] : c \in Conns} \cup Addresses
MatchIds == 1..MaxMatches

ValidStakes == {1, 10, 25, 50, 100}
Stakes == {10}
BadStakes == {7}
GameTypes == {"PREDICTION"}
Assets == {"ETH/USD"}
Predictions == {"UP"}
StartPrices == {100}
Prices == {100, 101}

\* inputs of the engine specifications
EnginePlayers == {"e1", "e2", "x"}
EnginePredictions == {"UP", "DOWN"}
EnginePrices == {99, 100, 101}
DuelPrices == {50, 100, 200}
DuelActions == {"BUY", "SELL", "HOLD"}

\* inputs of the queue-only specification
QStakes == {10, 25}
QGameTypes == {"PREDICTION", "TRADE_DUEL"}
QAssets == {"ETH/USD"}
QIds == {"e1", "e2", "w1", "w2"}

(***************************************************************************)
(* Matchmaking queue                                                       *)
(***************************************************************************)
\* `${stake}:${gameType}:${asset}` as the sequence of its parts
getQueueKey(stake, gameType, asset) ==
  << ToString(stake), ":", gameType, ":", asset >>

QueueKeys ==
  { getQueueKey(s, g, a) : s \in Stakes \cup QStakes,
                           g \in GameTypes \cup QGameTypes,
                           a \in Assets \cup QAssets }

NoEntry == [playerId |-> None]

QueueEntry(playerId, stake, gameType, asset) ==
  [playerId |-> playerId, stake |-> stake, gameType |-> gameType,
   asset |-> asset]

\* Array.prototype.findIndex, 1-based; 0 when no element satisfies Test
FindIndex(q, Test(_)) ==
  LET S == { i \in 1..Len(q) : Test(q[i]) }
  IN IF S = {} THEN 0 ELSE CHOOSE i \in S : \A j \in S : i <= j

\* Array.prototype.splice(i, 1)
Splice(q, i) == SubSeq(q, 1, i - 1) \o SubSeq(q, i + 1, Len(q))

\* add: push the entry, return the new length
QueueAdd(qs, playerId, stake, gameType, asset) ==
  LET key == getQueueKey(stake, gameType, asset)
      queue == Append(qs[key], QueueEntry(playerId, stake, gameType, asset))
  IN [queues |-> [qs EXCEPT ![key] = queue], position |-> Len(queue)]

\* the buckets in Map iteration order (insertion order is not modelled: the
\* first bucket holding the player is chosen among those that hold it)
BucketsWith(qs, playerId) ==
  { k \in DOMAIN qs : FindIndex(qs[k], LAMBDA e : e.playerId = playerId) # 0 }

\* remove: splice the first matching entry out of the bucket k that holds it
QueueRemoveAt(qs, playerId, k) ==
  [qs EXCEPT ![k] = Splice(@, FindIndex(@, LAMBDA e : e.playerId = playerId))]

isInQueue(qs, playerId) == BucketsWith(qs, playerId) # {}

\* findMatch taking the head of the bucket, whoever enqueued it
findMatchHead(qs, playerId, stake, gameType, asset) ==
  LET key == getQueueKey(stake, gameType, asset)
      queue == qs[key]
  IN IF Len(queue) = 0
       THEN [queues |-> qs, matched |-> NoEntry]
       ELSE [queues |-> [qs EXCEPT ![key] = Splice(queue, 1)],
             matched |-> queue[1]]

\* findMatch that leaves the caller's own entry in the bucket
findMatchKeepSelf(qs, playerId, stake, gameType, asset) ==
  LET key == getQueueKey(stake, gameType, asset)
      queue == qs[key]
      matchIndex == FindIndex(queue, LAMBDA e : e.playerId # playerId)
  IN IF Len(queue) = 0 \/ matchIndex = 0
       THEN [queues |-> qs, matched |-> NoEntry]
       ELSE [queues |-> [qs EXCEPT ![key] = Splice(queue, matchIndex)],
             matched |-> queue[matchIndex]]

\* findMatch: result record [queues, matched]
findMatch(qs, playerId, stake, gameType, asset) ==
  LET key == getQueueKey(stake, gameType, asset)
      queue == qs[key]
      matchIndex == FindIndex(queue, LAMBDA e : e.playerId # playerId)
  IN IF Len(queue) = 0 \/ matchIndex = 0
       THEN [queues |-> qs, matched |-> NoEntry]
       ELSE LET matched == queue[matchIndex]
                q1 == Splice(queue, matchIndex)
                selfIndex == FindIndex(q1, LAMBDA e : e.playerId = playerId)
                q2 == IF selfIndex # 0 THEN Splice(q1, selfIndex) ELSE q1
            IN [queues |-> [qs EXCEPT ![key] = q2], matched |-> matched]

totalPlayers(qs) ==
  LET RECURSIVE Sum(_)
      Sum(K) == IF K = {} THEN 0
                ELSE LET k == CHOOSE x \in K : TRUE
                     IN Len(qs[k]) + Sum(K \ {k})
  IN Sum(DOMAIN qs)

(***************************************************************************)
(* Connection registry (PlayerStore)                                       *)
(***************************************************************************)
NoPlayer == [socket |-> None]

\* a ConnectedPlayer; currentMatchId 0 stands for null
ConnectedPlayer(c, m) == [socket |-> c, currentMatchId |-> m]

Has(ps, id) == ps[id].socket # None

\* PlayerStore.add
PlayerAdd(ps, id, c) == [ps EXCEPT ![id] = ConnectedPlayer(c, 0)]

\* PlayerStore.remove
PlayerRemove(ps, id) == [ps EXCEPT ![id] = NoPlayer]

\* PlayerStore.setMatch: a no-op when no player is registered under id
setMatch(ps, id, m) ==
  IF id \in DOMAIN ps /\ Has(ps, id)
    THEN [ps EXCEPT ![id].currentMatchId = m]
    ELSE ps

\* PlayerStore.rename: [ok, players, socketToPlayer]
rename(ps, s2p, oldId, newId) ==
  IF Has(ps, newId) THEN [ok |-> FALSE, players |-> ps, s2p |-> s2p]
  ELSE IF Has(ps, oldId)
    THEN [ok |-> TRUE,
          players |-> [ps EXCEPT ![oldId] = NoPlayer, ![newId] = ps[oldId]],
          s2p |-> [s2p EXCEPT ![ps[oldId].socket] = newId]]
    ELSE [ok |-> FALSE, players |-> ps, s2p |-> s2p]

\* PlayerStore.send succeeds for id when a socket is registered and OPEN
CanSend(ps, sk, id) == id \in DOMAIN ps /\ Has(ps, id) /\ sk[ps[id].socket] = "open"

\* one emitted event: PlayerStore.broadcast(targets, {type, matchId})
Event(type, m, targets, ps, sk) ==
  [type |-> type, matchId |-> m, to |-> targets,
   delivered |-> { id \in targets : CanSend(ps, sk, id) }]

(***************************************************************************)
(* Match record store and match records                                    *)
(***************************************************************************)
WAITING == "WAITING"
PROPOSED == "PROPOSED"
ACTIVE == "ACTIVE"
COMPLETED == "COMPLETED"
SETTLING == "SETTLING"
SETTLED == "SETTLED"

StatusOrder == << WAITING, PROPOSED, ACTIVE, COMPLETED, SETTLING, SETTLED >>

NoMatch == [status |-> None]

Exists(ms, m) == m \in DOMAIN ms /\ ms[m].status # None

\* the record createMatch builds; matchData 0 stands for null, as do the
\* price 0 and the player / prediction / settlement value None
NewMatch(playerA, stake, gameType, asset) ==
  [playerA |-> playerA, playerB |-> None, stake |-> stake,
   status |-> WAITING, winner |-> None,
   predictionA |-> None, predictionB |-> None,
   gameType |-> gameType, asset |-> asset,
   startPrice |-> 0, endPrice |-> 0, matchData |-> 0,
   settlement |-> None]

\* [match.playerA, match.playerB].filter(Boolean)
Parties(mt) == { mt.playerA, mt.playerB } \ { None }

NoData == [startPrice |-> 0]

\* PredictionMatchData as AssetPredictionEngine.onStart returns it
PredictionMatchData(price) ==
  [startPrice |-> price, endPrice |-> 0,
   predictionA |-> None, predictionB |-> None]

\* MatchService.getEngine: engines[gameType] || engines["PREDICTION"]
getEngine(gameType) ==
  IF gameType \in {"PREDICTION", "TRADE_DUEL"} THEN gameType ELSE "PREDICTION"

\* onComplete that looks at the predictions before the unchanged price
PredictionWinnerDefaultFirst(mt, data, endPrice) ==
  LET priceDiff == endPrice - data.startPrice
      correctPrediction == IF priceDiff = 0 THEN None
                           ELSE IF priceDiff > 0 THEN "UP" ELSE "DOWN"
      predA == data.predictionA
      predB == data.predictionB
  IN IF predA = None /\ predB = None THEN None
     ELSE IF predA = None /\ predB # None THEN mt.playerB
     ELSE IF predA # None /\ predB = None THEN mt.playerA
     ELSE IF priceDiff = 0 THEN None
     ELSE IF predA = correctPrediction /\ predB # correctPrediction
       THEN mt.playerA
     ELSE IF predB = correctPrediction /\ predA # correctPrediction
       THEN mt.playerB
     ELSE None

\* AssetPredictionEngine.onComplete: the winner for the data object
PredictionWinner(mt, data, endPrice) ==
  LET priceDiff == endPrice - data.startPrice
      correctPrediction == IF priceDiff = 0 THEN None
                           ELSE IF priceDiff > 0 THEN "UP" ELSE "DOWN"
      predA == data.predictionA
      predB == data.predictionB
  IN IF priceDiff = 0 THEN None
     ELSE IF predA = None /\ predB = None THEN None
     ELSE IF predA = None /\ predB # None THEN mt.playerB
     ELSE IF predA # None /\ predB = None THEN mt.playerA
     ELSE IF predA = correctPrediction /\ predB # correctPrediction
       THEN mt.playerA
     ELSE IF predB = correctPrediction /\ predA # correctPrediction
       THEN mt.playerB
     ELSE None

\* results a TreasuryService.settleMatch call can resolve with
SettleResults ==
  { [status |-> "confirmed", submitted |-> TRUE],
    [status |-> "failed", submitted |-> TRUE],
    [status |-> "failed", submitted |-> FALSE] }

\* results a TreasuryService.refundStake call can resolve with
RefundResults ==
  SettleResults \cup { [status |-> "confirmed", submitted |-> FALSE] }


(***************************************************************************)
(* Initial state: stores empty, no connection, no timer, nothing in flight *)
(***************************************************************************)
SettlePhases == {"win", "refundA", "refundB_aok", "refundB_afail"}
Gens == 1..MaxStarts

NoCall == [caller |-> None]

\* no match is run by the prediction engine
NoPred == [phase |-> "idle"]

\* no match is run by the trade-duel engine
NoDuel == [phase |-> "idle"]

\* no match is run by the memory-match engine
NoMem == [phase |-> "idle"]

(***************************************************************************)
(* The EdgeTreasury contract                                               *)
(***************************************************************************)
MAX_RAKE_BPS == 500
BPS_DENOMINATOR == 10000
DefaultRakeBps == 250

\* token holders: the contract, its owner (the game server), two players
TreasuryAddress == "treasury"
Owner == "owner"
Accounts == {TreasuryAddress, Owner, "p1", "p2"}
ZeroAddress == "0x0"

\* no transaction yet
NoTx == [op |-> None, reverted |-> FALSE]

\* the contract after deployment, one player holding tokens
NoChainState ==
  [rakeBps |-> DefaultRakeBps,
   protocolRevenue |-> 0,
   totalMatchesSettled |-> 0,
   totalVolume |-> 0,
   balanceOf |-> [a \in Accounts |->
                   IF a = "p1" THEN 100 ELSE 0],
   lastTx |-> NoTx, sender |-> None]

(***************************************************************************)
(* The settlement bridge (TreasuryService)                                 *)
(***************************************************************************)
\* the service before its constructor ran
NoBridge == [phase |-> "new"]
NoHost == [phase |-> "empty"]

(***************************************************************************)
(* The price service                                                       *)
(***************************************************************************)
\* assets a caller can name: two of ASSET_ID_MAP and one that is not in it
PriceAssets == {"ETH/USD", "BTC/USD", "XRP/USD"}
KnownAssets == {"ETH/USD", "BTC/USD", "SOL/USD"}

\* no PriceData (Map.get gives undefined)
NoReading == [price |-> 0, timestamp |-> 0, source |-> None, fetch |-> 0]

\* PriceData; fetch numbers the fetch that built the object (its identity)
PriceData(price, timestamp, source, fetch) ==
  [price |-> price, timestamp |-> timestamp, source |-> source, fetch |-> fetch]

\* the service after construction: empty cache, no call made.  latest keeps
\* the last reading ever cached per asset; now is Date.now()
NoPriceState ==
  [cache |-> [a \in PriceAssets |-> NoReading],
   latest |-> [a \in PriceAssets |-> NoReading],
   now |-> 0,
   fetches |-> 0,
   calls |-> << >>]

Init ==
  /\ queues = [k \in QueueKeys |-> << >>]
  /\ qLast = NoCall
  /\ sock = [c \in Conns |-> "new"]
  /\ players = [id \in Ids |-> NoPlayer]
  /\ socketToPlayer = [c \in Conns |-> None]
  /\ matches = [m \in MatchIds |-> NoMatch]
  /\ matchCount = 0
  /\ acceptedPlayers = [m \in MatchIds |-> {}]
  /\ proposalTimers = [m \in MatchIds |-> "none"]
  /\ activeTimers = [m \in MatchIds |-> 0]
  /\ durPending = [m \in MatchIds |-> {}]
  /\ timerCount = [m \in MatchIds |-> 0]
  /\ settleTimers = [m \in MatchIds |-> 0]
  /\ inStart = [m \in MatchIds |-> 0]
  /\ inComplete = [m \in MatchIds |-> [g \in Gens |-> 0]]
  /\ inSettle = [m \in MatchIds |-> [ph \in SettlePhases |-> 0]]
  /\ dataObjs = [m \in MatchIds |-> [g \in Gens |-> NoData]]
  /\ ledger = [m \in MatchIds |->
                 [payout |-> 0, refundA |-> 0, refundB |-> 0, last |-> None]]
  /\ sent = << >>
  /\ pred = NoPred
  /\ duel = NoDuel
  /\ mem = NoMem
  /\ psvc = NoPriceState
  /\ chain = NoChainState
  /\ bridge = NoBridge
  /\ host = NoHost

queueVars == << queues, qLast >>
playerVars == << players, socketToPlayer >>
timerVars == << proposalTimers, activeTimers, durPending, timerCount,
                settleTimers >>
flightVars == << inStart, inComplete, inSettle >>
matchVars == << matches, matchCount, acceptedPlayers, dataObjs, ledger >>

(***************************************************************************)
(* MatchService.cancelMatch and clearTimer                                 *)
(***************************************************************************)
\* clearTimer: clearTimeout on the handle activeTimers holds, drop the entry
clearTimer(m) ==
  [activeTimers |-> [activeTimers EXCEPT ![m] = 0],
   durPending |-> [durPending EXCEPT ![m] = @ \ {activeTimers[m]}]]

\* cancelMatch on an existing match, over the registry ps: the new values
cancelMatch(m, ps, sk) ==
  LET mt == matches[m]
      ct == clearTimer(m)
      hasProposal == proposalTimers[m] # "none"
      released ==
        [id \in DOMAIN ps |->
           IF id \in Parties(mt) /\ Has(ps, id)
             THEN [ps[id] EXCEPT !.currentMatchId = 0] ELSE ps[id]]
  IN [activeTimers |-> ct.activeTimers,
      durPending |-> ct.durPending,
      proposalTimers |-> [proposalTimers EXCEPT ![m] = "none"],
      acceptedPlayers |-> IF hasProposal
                            THEN [acceptedPlayers EXCEPT ![m] = {}]
                            ELSE acceptedPlayers,
      matches |-> [matches EXCEPT ![m] = NoMatch],
      events |-> << Event("ERROR", m, Parties(mt), ps, sk) >>,
      players |-> released]

(***************************************************************************)
(* Connections: open, drop, close / error events, periodic prune           *)
(***************************************************************************)
\* handleConnection: register the socket under a fresh ephemeral id
Connect(c) ==
  /\ sock[c] = "new"
  /\ sock' = [sock EXCEPT ![c] = "open"]
  /\ players' = PlayerAdd(players, EphId[c], c)
  /\ socketToPlayer' = [socketToPlayer EXCEPT ![c] = EphId[c]]
  /\ sent' = << Event("CONNECTED", 0, {EphId[c]}, players', sock') >>
  /\ UNCHANGED << auxVars, queueVars, timerVars, flightVars, matchVars >>

\* the socket leaves readyState OPEN; its close event is still to come
SocketDrop(c) ==
  /\ sock[c] = "open"
  /\ sock' = [sock EXCEPT ![c] = "closing"]
  /\ sent' = << >>
  /\ UNCHANGED << auxVars, queueVars, playerVars, timerVars, flightVars, matchVars >>

\* handleDisconnect cancelling the player's match whatever its status
handleDisconnectAnyStatus(playerId, sk) ==
  LET player == players[playerId]
      cm == player.currentMatchId
      cancels == Has(players, playerId) /\ cm # 0 /\ Exists(matches, cm)
      cr == cancelMatch(cm, players, sk)
      B == BucketsWith(queues, playerId)
  IN /\ IF B = {} THEN queues' = queues
        ELSE \E k \in B : queues' = QueueRemoveAt(queues, playerId, k)
     /\ IF cancels
          THEN /\ players' = PlayerRemove(cr.players, playerId)
               /\ matches' = cr.matches
               /\ activeTimers' = cr.activeTimers
               /\ durPending' = cr.durPending
               /\ proposalTimers' = cr.proposalTimers
               /\ acceptedPlayers' = cr.acceptedPlayers
               /\ sent' = cr.events
          ELSE /\ players' = PlayerRemove(players, playerId)
               /\ sent' = << >>
               /\ UNCHANGED << matches, activeTimers, durPending,
                               proposalTimers, acceptedPlayers >>
     /\ socketToPlayer' =
          IF Has(players, playerId)
            THEN [socketToPlayer EXCEPT ![player.socket] = None]
            ELSE socketToPlayer
     /\ UNCHANGED << auxVars, qLast, matchCount, dataObjs, ledger,
                     timerCount, settleTimers, flightVars >>

\* handleDisconnect(playerId); sk is the state of the sockets at that time
handleDisconnect(playerId, sk) ==
  LET player == players[playerId]
      cm == player.currentMatchId
      cancels == Has(players, playerId) /\ cm # 0 /\ Exists(matches, cm)
                 /\ matches[cm].status = WAITING
      cr == cancelMatch(cm, players, sk)
      B == BucketsWith(queues, playerId)
  IN /\ IF B = {} THEN queues' = queues
        ELSE \E k \in B : queues' = QueueRemoveAt(queues, playerId, k)
     /\ IF cancels
          THEN /\ players' = PlayerRemove(cr.players, playerId)
               /\ matches' = cr.matches
               /\ activeTimers' = cr.activeTimers
               /\ durPending' = cr.durPending
               /\ proposalTimers' = cr.proposalTimers
               /\ acceptedPlayers' = cr.acceptedPlayers
               /\ sent' = cr.events
          ELSE /\ players' = PlayerRemove(players, playerId)
               /\ sent' = << >>
               /\ UNCHANGED << matches, activeTimers, durPending,
                               proposalTimers, acceptedPlayers >>
     /\ socketToPlayer' =
          IF Has(players, playerId)
            THEN [socketToPlayer EXCEPT ![player.socket] = None]
            ELSE socketToPlayer
     /\ UNCHANGED << auxVars, qLast, matchCount, dataObjs, ledger,
                     timerCount, settleTimers, flightVars >>

\* socket.on("close"): handleDisconnect when the socket still maps to an id
CloseEvent(c) ==
  /\ sock[c] = "closing"
  /\ sock' = [sock EXCEPT ![c] = "done"]
  /\ IF socketToPlayer[c] # None
       THEN handleDisconnect(socketToPlayer[c], sock')
       ELSE /\ sent' = << >>
            /\ UNCHANGED << auxVars, queueVars, playerVars, timerVars, flightVars,
                            matchVars >>

\* socket.on("error"): handleDisconnect; the close event follows later
ErrorEvent(c) ==
  /\ sock[c] = "open"
  /\ socketToPlayer[c] # None
  /\ sock' = [sock EXCEPT ![c] = "closing"]
  /\ handleDisconnect(socketToPlayer[c], sock')

\* PlayerStore.pruneConnections: remove every player whose socket is not OPEN
pruneConnections ==
  LET dead == { id \in Ids : Has(players, id) /\ sock[players[id].socket] # "open" }
  IN /\ dead # {}
     /\ players' = [id \in Ids |-> IF id \in dead THEN NoPlayer ELSE players[id]]
     /\ socketToPlayer' =
          [c \in Conns |->
             IF \E id \in dead : players[id].socket = c
               THEN None ELSE socketToPlayer[c]]
     /\ sent' = << >>
     /\ UNCHANGED << auxVars, sock, queueVars, timerVars, flightVars, matchVars >>


(***************************************************************************)
(* Client messages                                                         *)
(***************************************************************************)
\* createMatch followed by proposeMatch, as joinQueue runs them back to back
\* (proposeMatch has no await): the new values for match id m
proposeMatch(m, opponent, playerB, stake, gameType, asset, ps) ==
  LET created == NewMatch(opponent, stake, gameType, asset)
      ps1 == setMatch(ps, opponent, m)
      updated == [created EXCEPT !.playerB = playerB, !.status = PROPOSED]
      ps2 == setMatch(ps1, playerB, m)
  IN [match |-> updated,
      players |-> ps2,
      events |-> << Event("MATCH_PROPOSED", m, {updated.playerA, updated.playerB},
                          ps2, sock) >>]

\* handleJoinQueue + MatchmakingService.joinQueue for a JOIN_QUEUE message
JoinQueue(c, stake, gameType, asset, newIdentity) ==
  /\ sock[c] = "open"
  /\ socketToPlayer[c] # None
  /\ LET playerId == socketToPlayer[c]
         rn == IF newIdentity # None
                 THEN rename(players, socketToPlayer, playerId, newIdentity)
                 ELSE [ok |-> FALSE, players |-> players, s2p |-> socketToPlayer]
         activePlayerId == IF rn.ok THEN newIdentity ELSE playerId
         ps1 == rn.players
         ev1 == IF rn.ok
                  THEN << Event("CONNECTED", 0, {activePlayerId}, ps1, sock) >>
                  ELSE << >>
         fm == findMatch(queues, activePlayerId, stake, gameType, asset)
         m == matchCount + 1
     IN /\ socketToPlayer' = rn.s2p
        /\ IF stake \notin ValidStakes
             THEN /\ sent' = ev1 \o << Event("ERROR", 0, {playerId}, ps1, sock) >>
                  /\ players' = ps1
                  /\ UNCHANGED << queues, matches, matchCount, proposalTimers >>
           ELSE IF ps1[activePlayerId].currentMatchId # 0
                   \/ isInQueue(queues, activePlayerId)
             THEN /\ sent' = ev1
                  /\ players' = ps1
                  /\ UNCHANGED << queues, matches, matchCount, proposalTimers >>
           ELSE IF fm.matched # NoEntry
             THEN /\ matchCount < MaxMatches
                  /\ LET pr == proposeMatch(m, fm.matched.playerId, activePlayerId,
                                            stake, gameType, asset, ps1)
                     IN /\ queues' = fm.queues
                        /\ matches' = [matches EXCEPT ![m] = pr.match]
                        /\ matchCount' = m
                        /\ players' = pr.players
                        /\ proposalTimers' = [proposalTimers EXCEPT ![m] = "armed"]
                        /\ sent' = ev1 \o pr.events
             ELSE /\ LET ad == QueueAdd(queues, activePlayerId, stake, gameType, asset)
                     IN /\ queues' = ad.queues
                        /\ sent' = ev1 \o << [Event("QUEUE_JOINED", 0, {activePlayerId},
                                                    ps1, sock)
                                              EXCEPT !.matchId = ad.position] >>
                  /\ players' = ps1
                  /\ UNCHANGED << matches, matchCount, proposalTimers >>
  /\ UNCHANGED << auxVars, qLast, sock, acceptedPlayers, dataObjs, ledger,
                  activeTimers, durPending, timerCount, settleTimers,
                  flightVars >>

\* handleLeaveQueue
LeaveQueue(c) ==
  /\ sock[c] = "open"
  /\ socketToPlayer[c] # None
  /\ LET playerId == socketToPlayer[c]
         B == BucketsWith(queues, playerId)
     IN IF B = {}
          THEN /\ queues' = queues
               /\ sent' = << Event("ERROR", 0, {playerId}, players, sock) >>
          ELSE /\ \E k \in B : queues' = QueueRemoveAt(queues, playerId, k)
               /\ sent' = << Event("QUEUE_LEFT", 0, {playerId}, players, sock) >>
  /\ UNCHANGED << auxVars, qLast, sock, playerVars, timerVars, flightVars, matchVars >>

\* acceptMatch starting the match as soon as either party has accepted
acceptMatchEither(c, m) ==
  /\ sock[c] = "open"
  /\ socketToPlayer[c] # None
  /\ Exists(matches, m)
  /\ matches[m].status = PROPOSED
  /\ LET playerId == socketToPlayer[c]
         match == matches[m]
         accepted == acceptedPlayers[m] \cup {playerId}
         either == match.playerA \in accepted \/ match.playerB \in accepted
     IN /\ IF either
             THEN /\ proposalTimers' = [proposalTimers EXCEPT ![m] = "none"]
                  /\ acceptedPlayers' = [acceptedPlayers EXCEPT ![m] = {}]
                  /\ inStart' = [inStart EXCEPT ![m] = @ + 1]
             ELSE /\ acceptedPlayers' = [acceptedPlayers EXCEPT ![m] = accepted]
                  /\ UNCHANGED << proposalTimers, inStart >>
  /\ sent' = << >>
  /\ UNCHANGED << auxVars, queueVars, sock, playerVars, matches, matchCount, dataObjs,
                  ledger, activeTimers, durPending, timerCount, settleTimers,
                  inComplete, inSettle >>

\* acceptMatch(matchId, playerId) for an ACCEPT_MATCH message of connection c;
\* when both parties are in the set it runs startMatch up to its await
acceptMatch(c, m) ==
  /\ sock[c] = "open"
  /\ socketToPlayer[c] # None
  /\ Exists(matches, m)
  /\ matches[m].status = PROPOSED
  /\ LET playerId == socketToPlayer[c]
         match == matches[m]
         accepted == acceptedPlayers[m] \cup {playerId}
         both == match.playerA \in accepted /\ match.playerB # None
                 /\ match.playerB \in accepted
     IN /\ IF both
             THEN /\ proposalTimers' = [proposalTimers EXCEPT ![m] = "none"]
                  /\ acceptedPlayers' = [acceptedPlayers EXCEPT ![m] = {}]
                  /\ inStart' = [inStart EXCEPT ![m] = @ + 1]
             ELSE /\ acceptedPlayers' = [acceptedPlayers EXCEPT ![m] = accepted]
                  /\ UNCHANGED << proposalTimers, inStart >>
  /\ sent' = << >>
  /\ UNCHANGED << auxVars, queueVars, sock, playerVars, matches, matchCount, dataObjs,
                  ledger, activeTimers, durPending, timerCount, settleTimers,
                  inComplete, inSettle >>

\* AssetPredictionEngine.onAction on the data object: [ok, data]
onAction(match, data, playerId, prediction) ==
  IF match.playerA = playerId
    THEN [ok |-> TRUE, data |-> [data EXCEPT !.predictionA = prediction]]
  ELSE IF match.playerB = playerId
    THEN [ok |-> TRUE, data |-> [data EXCEPT !.predictionB = prediction]]
  ELSE [ok |-> FALSE, data |-> data]

\* the mirror fields handleGameAction re-derives from matchData
syncedFields(match, data) ==
  [match EXCEPT !.predictionA = data.predictionA,
                !.predictionB = data.predictionB,
                !.startPrice = IF data.startPrice # 0 THEN data.startPrice ELSE @,
                !.endPrice = IF data.endPrice # 0 THEN data.endPrice ELSE @]

\* handleGameAction(matchId, playerId, "SUBMIT_PREDICTION", {prediction})
handleGameAction(c, m, prediction) ==
  /\ sock[c] = "open"
  /\ socketToPlayer[c] # None
  /\ Exists(matches, m)
  /\ matches[m].status = ACTIVE
  /\ LET match == matches[m]
         gen == match.matchData
         act == onAction(match, dataObjs[m][gen], socketToPlayer[c], prediction)
     IN /\ act.ok
        /\ dataObjs' = [dataObjs EXCEPT ![m][gen] = act.data]
        /\ matches' = [matches EXCEPT ![m] = syncedFields(match, act.data)]
        /\ sent' = << Event("GAME_STATE_UPDATE", m, Parties(match), players, sock) >>
  /\ UNCHANGED << auxVars, queueVars, sock, playerVars, timerVars, flightVars,
                  matchCount, acceptedPlayers, ledger >>


(***************************************************************************)
(* Timers and the resumption of awaited calls                              *)
(***************************************************************************)
\* the accept-timeout callback
handleProposalTimeout(m) ==
  /\ proposalTimers[m] = "armed"
  /\ IF Exists(matches, m) /\ matches[m].status = PROPOSED
       THEN LET cr == cancelMatch(m, players, sock)
            IN /\ matches' = cr.matches
               /\ players' = cr.players
               /\ activeTimers' = cr.activeTimers
               /\ durPending' = cr.durPending
               /\ proposalTimers' = cr.proposalTimers
               /\ acceptedPlayers' = cr.acceptedPlayers
               /\ sent' = cr.events
       ELSE /\ proposalTimers' = [proposalTimers EXCEPT ![m] = "fired"]
            /\ sent' = << >>
            /\ UNCHANGED << matches, players, activeTimers, durPending,
                            acceptedPlayers >>
  /\ UNCHANGED << auxVars, queueVars, sock, socketToPlayer, matchCount, dataObjs,
                  ledger, timerCount, settleTimers, flightVars >>

\* startMatch after engine.onStart resolved with the fetched price
startMatch(m, price) ==
  /\ inStart[m] > 0
  /\ inStart' = [inStart EXCEPT ![m] = @ - 1]
  /\ IF Exists(matches, m)
       THEN LET gen == timerCount[m] + 1
                updated == [matches[m] EXCEPT !.status = ACTIVE,
                                              !.matchData = gen]
                players2 == {updated.playerA, updated.playerB}
            IN /\ gen \in Gens
               /\ matches' = [matches EXCEPT ![m] = updated]
               /\ dataObjs' = [dataObjs EXCEPT ![m][gen] = PredictionMatchData(price)]
               /\ sent' = << Event("START_MATCH", m, players2, players, sock),
                             Event("GAME_STATE_UPDATE", m, players2, players, sock) >>
               \* startMatchTimer: a new timer replaces the map entry
               /\ timerCount' = [timerCount EXCEPT ![m] = gen]
               /\ durPending' = [durPending EXCEPT ![m] = @ \cup {gen}]
               /\ activeTimers' = [activeTimers EXCEPT ![m] = gen]
       ELSE /\ sent' = << >>
            /\ UNCHANGED << matches, dataObjs, timerCount, durPending,
                            activeTimers >>
  /\ UNCHANGED << auxVars, queueVars, sock, playerVars, matchCount, acceptedPlayers,
                  ledger, proposalTimers, settleTimers,
                  inComplete, inSettle >>

\* the oldest pending duration timer of m: timers of equal delay fire in the
\* order they were armed
OldestTimer(m) == CHOOSE t \in durPending[m] : \A u \in durPending[m] : t <= u

\* the duration timer callback: completeMatch up to its await
durationTimer(m) ==
  /\ durPending[m] # {}
  /\ LET t == OldestTimer(m)
         pend == durPending[m] \ {t}
     IN IF Exists(matches, m) /\ matches[m].status = ACTIVE
          THEN /\ durPending' = [durPending EXCEPT ![m] = pend \ {activeTimers[m]}]
               /\ activeTimers' = [activeTimers EXCEPT ![m] = 0]
               /\ inComplete' = [inComplete EXCEPT ![m][matches[m].matchData] = @ + 1]
          ELSE /\ durPending' = [durPending EXCEPT ![m] = pend]
               /\ UNCHANGED << activeTimers, inComplete >>
  /\ sent' = << >>
  /\ UNCHANGED << auxVars, queueVars, sock, playerVars, matchVars, proposalTimers,
                  timerCount, settleTimers, inStart, inSettle >>

\* completeMatch after engine.onComplete resolved: data is the matchData
\* object onComplete captured before its await, price the fresh end price
completeMatch(m, gen, price) ==
  /\ inComplete[m][gen] > 0
  /\ inComplete' = [inComplete EXCEPT ![m][gen] = @ - 1]
  /\ LET data == [dataObjs[m][gen] EXCEPT !.endPrice = price]
     IN /\ dataObjs' = [dataObjs EXCEPT ![m][gen] = data]
        /\ IF Exists(matches, m)
             THEN LET match == matches[m]
                      winner == PredictionWinner(match, data, price)
                      updated == [match EXCEPT !.status = COMPLETED,
                                               !.winner = winner,
                                               !.matchData = gen]
                  IN /\ matches' = [matches EXCEPT ![m] = updated]
                     \* notifyMatchResult
                     /\ sent' = << Event("MATCH_RESULT", m, Parties(updated),
                                         players, sock) >>
                     /\ settleTimers' = [settleTimers EXCEPT ![m] = @ + 1]
             ELSE /\ sent' = << >>
                  /\ UNCHANGED << matches, settleTimers >>
  /\ UNCHANGED << auxVars, queueVars, sock, playerVars, matchCount, acceptedPlayers,
                  ledger, proposalTimers, activeTimers,
                  durPending, timerCount, inStart, inSettle >>

\* the 3 s settle callback: settleMatch up to its first await
settleTimer(m) ==
  /\ settleTimers[m] > 0
  /\ settleTimers' = [settleTimers EXCEPT ![m] = @ - 1]
  /\ IF Exists(matches, m) /\ matches[m].status = COMPLETED
       THEN LET match == matches[m]
                phase == IF match.winner # None THEN "win" ELSE "refundA"
            IN /\ matches' = [matches EXCEPT ![m].status = SETTLING]
               /\ sent' = << Event("SETTLEMENT_STARTED", m, Parties(match),
                                   players, sock) >>
               /\ inSettle' = [inSettle EXCEPT ![m][phase] = @ + 1]
       ELSE /\ sent' = << >>
            /\ UNCHANGED << matches, inSettle >>
  /\ UNCHANGED << auxVars, queueVars, sock, playerVars, matchCount, acceptedPlayers,
                  dataObjs, ledger, proposalTimers, activeTimers,
                  durPending, timerCount, inStart, inComplete >>

\* the tail of settleMatch leaving a failed settlement unstored, for a retry
finishSettleNoFail(m, status) ==
  IF Exists(matches, m) /\ status = "confirmed"
    THEN LET match == matches[m]
             released == setMatch(setMatch(players, match.playerA, 0),
                                  match.playerB, 0)
         IN /\ matches' = [matches EXCEPT ![m].status = SETTLED,
                                          ![m].settlement = status]
            /\ players' = released
            /\ sent' = << Event("SETTLEMENT_COMPLETE", m, Parties(match),
                                released, sock) >>
    ELSE /\ sent' = << >>
         /\ UNCHANGED << matches, players >>

\* the tail of settleMatch: store SETTLED with the settlement, release the
\* players, announce the outcome
finishSettle(m, status) ==
  IF Exists(matches, m)
    THEN LET match == matches[m]
             released == IF match.playerB # None
                           THEN setMatch(setMatch(players, match.playerA, 0),
                                         match.playerB, 0)
                           ELSE setMatch(players, match.playerA, 0)
             msgType == IF status = "confirmed" THEN "SETTLEMENT_COMPLETE"
                        ELSE "SETTLEMENT_FAILED"
         IN /\ matches' = [matches EXCEPT ![m].status = SETTLED,
                                          ![m].settlement = status]
            /\ players' = released
            /\ sent' = << Event(msgType, m, Parties(match), released, sock) >>
    ELSE /\ sent' = << >>
         /\ UNCHANGED << matches, players >>

\* settleMatch after a ledger call resolved with result res
settleMatch(m, phase, res) ==
  /\ inSettle[m][phase] > 0
  /\ res \in (IF phase = "win" THEN SettleResults ELSE RefundResults)
  /\ LET n == IF res.submitted THEN 1 ELSE 0
         aOk == phase = "refundB_aok"
         nextPhase == IF res.status = "confirmed" THEN "refundB_aok"
                      ELSE "refundB_afail"
     IN CASE phase = "win" ->
               /\ ledger' = [ledger EXCEPT ![m].payout = @ + n,
                                         ![m].last = res.status]
               /\ inSettle' = [inSettle EXCEPT ![m][phase] = @ - 1]
               /\ finishSettle(m, res.status)
          [] phase = "refundA" /\ matches[m].playerB # None ->
               /\ ledger' = [ledger EXCEPT ![m].refundA = @ + n,
                                         ![m].last = res.status]
               /\ inSettle' = [inSettle EXCEPT ![m][phase] = @ - 1,
                                               ![m][nextPhase] = @ + 1]
               /\ sent' = << >>
               /\ UNCHANGED << matches, players >>
          [] phase = "refundA" /\ matches[m].playerB = None ->
               /\ ledger' = [ledger EXCEPT ![m].refundA = @ + n,
                                         ![m].last = res.status]
               /\ inSettle' = [inSettle EXCEPT ![m][phase] = @ - 1]
               /\ finishSettle(m, res.status)
          [] OTHER ->
               /\ ledger' = [ledger EXCEPT ![m].refundB = @ + n,
                                         ![m].last = res.status]
               /\ inSettle' = [inSettle EXCEPT ![m][phase] = @ - 1]
               /\ finishSettle(m, IF aOk /\ res.status = "confirmed"
                                    THEN "confirmed" ELSE "failed")
  /\ UNCHANGED << auxVars, queueVars, sock, socketToPlayer, matchCount, acceptedPlayers,
                  dataObjs, timerVars, inStart, inComplete >>

(***************************************************************************)
(* Specifications of the orchestrator                                      *)
(***************************************************************************)
\* fewer than n startMatch invocations of m were made so far
StartsBelow(m, n) == timerCount[m] + inStart[m] < n

\* an ACCEPT_MATCH message, with at most n startMatch invocations per match
Accept(c, m, n) ==
  /\ acceptMatch(c, m)
  /\ inStart'[m] # inStart[m] => StartsBelow(m, n)

\* the complete environment
Next ==
  \/ \E c \in Conns : Connect(c)
  \/ \E c \in Conns : SocketDrop(c)
  \/ \E c \in Conns : CloseEvent(c)
  \/ \E c \in Conns : ErrorEvent(c)
  \/ pruneConnections
  \/ \E c \in Conns, stake \in Stakes \cup BadStakes, g \in GameTypes,
        a \in Assets, w \in Wallets \cup {None} : JoinQueue(c, stake, g, a, w)
  \/ \E c \in Conns : LeaveQueue(c)
  \/ \E c \in Conns, m \in MatchIds : Accept(c, m, MaxStartsEnv)
  \/ \E c \in Conns, m \in MatchIds, p \in Predictions : handleGameAction(c, m, p)
  \/ \E m \in MatchIds : handleProposalTimeout(m)
  \/ \E m \in MatchIds, price \in StartPrices : startMatch(m, price)
  \/ \E m \in MatchIds : durationTimer(m)
  \/ \E m \in MatchIds, g \in Gens, price \in Prices : completeMatch(m, g, price)
  \/ \E m \in MatchIds : settleTimer(m)
  \/ \E m \in MatchIds, ph \in SettlePhases, r \in RefundResults : settleMatch(m, ph, r)

Spec == Init /\ [][Next]_vars

\* timers fire and the awaited price and ledger calls return
Fairness ==
  /\ \A m \in MatchIds : WF_vars(\E price \in StartPrices : startMatch(m, price))
  /\ \A m \in MatchIds : WF_vars(durationTimer(m))
  /\ \A m \in MatchIds :
       WF_vars(\E g \in Gens, price \in Prices : completeMatch(m, g, price))
  /\ \A m \in MatchIds : WF_vars(settleTimer(m))
  /\ \A m \in MatchIds :
       WF_vars(\E ph \in SettlePhases, r \in RefundResults : settleMatch(m, ph, r))

FairSpec == Spec /\ Fairness

\* the lobby: everything up to the write of ACTIVE, with repeated accepts
NextLobby ==
  \/ \E c \in Conns : Connect(c)
  \/ \E c \in Conns : SocketDrop(c)
  \/ \E c \in Conns : CloseEvent(c)
  \/ \E c \in Conns : ErrorEvent(c)
  \/ pruneConnections
  \/ \E c \in Conns, stake \in Stakes \cup BadStakes, g \in GameTypes,
        a \in Assets, w \in Wallets \cup {None} : JoinQueue(c, stake, g, a, w)
  \/ \E c \in Conns : LeaveQueue(c)
  \/ \E c \in Conns, m \in MatchIds : Accept(c, m, MaxStarts)
  \/ \E m \in MatchIds : handleProposalTimeout(m)
  \/ \E m \in MatchIds, price \in StartPrices : startMatch(m, price)

SpecLobby == Init /\ [][NextLobby]_vars

\* two connected players, repeated accepts, every timer and awaited call
NextRace ==
  \/ \E c \in Conns : Connect(c)
  \/ \E c \in Conns, stake \in Stakes, g \in GameTypes, a \in Assets :
        JoinQueue(c, stake, g, a, None)
  \/ \E c \in Conns, m \in MatchIds : Accept(c, m, MaxStarts)
  \/ \E c \in Conns, m \in MatchIds, p \in Predictions : handleGameAction(c, m, p)
  \/ \E m \in MatchIds : handleProposalTimeout(m)
  \/ \E m \in MatchIds, price \in StartPrices : startMatch(m, price)
  \/ \E m \in MatchIds : durationTimer(m)
  \/ \E m \in MatchIds, g \in Gens, price \in Prices : completeMatch(m, g, price)
  \/ \E m \in MatchIds : settleTimer(m)
  \/ \E m \in MatchIds, ph \in SettlePhases, r \in RefundResults : settleMatch(m, ph, r)

SpecRace == Init /\ [][NextRace]_vars

(***************************************************************************)
(* Specification of the queue alone: entries come and go, findMatch is     *)
(* called by any player for any bucket                                     *)
(***************************************************************************)
otherVars == << auxVars, sock, playerVars, timerVars, flightVars, matchVars, sent >>

\* MatchmakingQueue.add for a player joinQueue found in no bucket
QAdd(id, stake, gameType, asset) ==
  /\ ~isInQueue(queues, id)
  /\ totalPlayers(queues) < MaxQueued
  /\ queues' = QueueAdd(queues, id, stake, gameType, asset).queues
  /\ qLast' = NoCall
  /\ UNCHANGED otherVars

\* MatchmakingQueue.remove
QRemove(id) ==
  /\ \E k \in BucketsWith(queues, id) : queues' = QueueRemoveAt(queues, id, k)
  /\ qLast' = NoCall
  /\ UNCHANGED otherVars

\* MatchmakingQueue.findMatch; qLast keeps the call, the queue it was made
\* on and what it returned
QFind(id, stake, gameType, asset) ==
  LET fm == findMatch(queues, id, stake, gameType, asset)
  IN /\ queues' = fm.queues
     /\ qLast' = [caller |-> id, stake |-> stake, gameType |-> gameType,
                  asset |-> asset, before |-> queues, matched |-> fm.matched]
     /\ UNCHANGED otherVars

NextQueue ==
  \/ \E id \in QIds, s \in QStakes, g \in QGameTypes, a \in QAssets :
        QAdd(id, s, g, a)
  \/ \E id \in QIds : QRemove(id)
  \/ \E id \in QIds, s \in QStakes, g \in QGameTypes, a \in QAssets :
        QFind(id, s, g, a)

SpecQueue == Init /\ [][NextQueue]_vars

(***************************************************************************)
(* Specification of the prediction engine alone: one match from onStart    *)
(* through any submissions to onComplete                                   *)
(***************************************************************************)
notPred == << coreVars, duel, mem, psvc, chain, bridge, host >>

\* AssetPredictionEngine.onStart with the price the feed returned
PredOnStart(price) ==
  /\ pred.phase = "idle"
  /\ pred' = [phase |-> "active",
              match |-> [playerA |-> "e1", playerB |-> "e2"],
              data |-> PredictionMatchData(price),
              winner |-> None]
  /\ UNCHANGED notPred

\* AssetPredictionEngine.onAction(match, playerId, "SUBMIT_PREDICTION", ..)
PredOnAction(playerId, prediction) ==
  /\ pred.phase = "active"
  /\ LET act == onAction(pred.match, pred.data, playerId, prediction)
     IN pred' = [pred EXCEPT !.data = act.data]
  /\ UNCHANGED notPred

\* AssetPredictionEngine.onComplete with the fresh end price
PredOnComplete(price) ==
  /\ pred.phase = "active"
  /\ LET data == [pred.data EXCEPT !.endPrice = price]
     IN pred' = [pred EXCEPT !.phase = "done", !.data = data,
                             !.winner = PredictionWinner(pred.match, data, price)]
  /\ UNCHANGED notPred

NextPredict ==
  \/ \E price \in EnginePrices : PredOnStart(price)
  \/ \E id \in EnginePlayers, p \in EnginePredictions : PredOnAction(id, p)
  \/ \E price \in EnginePrices : PredOnComplete(price)

SpecPredict == Init /\ [][NextPredict]_vars

(***************************************************************************)
(* The trade-duel engine.  Balances are dollars; a position's size is kept *)
(* in units of 1/SizeScale of the asset, which is exact for the prices and *)
(* the number of trades considered, as the engine's floating point         *)
(* arithmetic is for them.                                                 *)
(***************************************************************************)
INITIAL_BALANCE == 10000
SizeScale == 1024
MaxTrades == 2

NoPosition == [side |-> None, entryPrice |-> 0, size |-> 0]

\* PlayerState: cash, open position, number of positions opened
InitialPlayerState ==
  [virtualBalance |-> INITIAL_BALANCE, position |-> NoPosition, opened |-> 0]

\* TradeDuelEngine.onStart: the matchData object
TradeDuelData(price) ==
  [startPrice |-> price, endPrice |-> None,
   initialBalance |-> INITIAL_BALANCE,
   playerAState |-> InitialPlayerState,
   playerBState |-> InitialPlayerState]

\* TradeDuelEngine.closePosition
closePosition(state, price) ==
  IF state.position.side = None THEN state
  ELSE LET entryPrice == state.position.entryPrice
           size == state.position.size
       IN IF state.position.side = "LONG"
            THEN [state EXCEPT !.virtualBalance = (size * price) \div SizeScale,
                               !.position = NoPosition]
            ELSE LET pnl == ((entryPrice - price) * size) \div SizeScale
                     originalCollateral == (size * entryPrice) \div SizeScale
                 IN [state EXCEPT !.virtualBalance = originalCollateral + pnl,
                                  !.position = NoPosition]

\* the trade that opens without closing the position held
executeTradeNoClose(state, price, side) ==
  LET size == (state.virtualBalance * SizeScale) \div price
  IN [state EXCEPT !.position = [side |-> side, entryPrice |-> price,
                                 size |-> size],
                   !.virtualBalance = 0,
                   !.opened = @ + 1]

\* TradeDuelEngine.executeBuy / executeSell: close, then open with all cash
executeTrade(state, price, side) ==
  LET closed == closePosition(state, price)
      size == (closed.virtualBalance * SizeScale) \div price
  IN [closed EXCEPT !.position = [side |-> side, entryPrice |-> price,
                                  size |-> size],
                    !.virtualBalance = 0,
                    !.opened = @ + 1]

\* TradeDuelEngine.onAction on the data object: [ok, data]
duelOnAction(match, data, playerId, action, currentPrice) ==
  IF playerId # match.playerA /\ playerId # match.playerB
    THEN [ok |-> FALSE, data |-> data]
  ELSE IF action \notin {"BUY", "SELL"} THEN [ok |-> FALSE, data |-> data]
  ELSE LET side == IF action = "BUY" THEN "LONG" ELSE "SHORT"
       IN IF match.playerA = playerId
            THEN [ok |-> TRUE,
                  data |-> [data EXCEPT !.playerAState =
                                          executeTrade(@, currentPrice, side)]]
            ELSE [ok |-> TRUE,
                  data |-> [data EXCEPT !.playerBState =
                                          executeTrade(@, currentPrice, side)]]

\* the winner rule that compares the profits whatever their sign
TradeDuelWinnerHigherProfit(mt, profitA, profitB) ==
  IF profitA > profitB THEN mt.playerA
  ELSE IF profitB > profitA /\ mt.playerB # None THEN mt.playerB
  ELSE None

\* TradeDuelEngine.onComplete: the winner for the two profits
TradeDuelWinner(mt, profitA, profitB) ==
  IF profitA <= 0 /\ profitB <= 0 THEN None
  ELSE IF profitA > profitB THEN mt.playerA
  ELSE IF profitB > profitA /\ mt.playerB # None THEN mt.playerB
  ELSE None

(***************************************************************************)
(* Specification of the trade-duel engine alone                            *)
(***************************************************************************)
notDuel == << coreVars, pred, mem, psvc, chain, bridge, host >>

\* TradeDuelEngine.onStart with the price the feed returned
DuelOnStart(price) ==
  /\ duel.phase = "idle"
  /\ duel' = [phase |-> "active",
              match |-> [playerA |-> "e1", playerB |-> "e2"],
              data |-> TradeDuelData(price),
              results |-> [playerAProfit |-> 0, playerBProfit |-> 0],
              winner |-> None]
  /\ UNCHANGED notDuel

\* TradeDuelEngine.onAction(match, playerId, "GAME_ACTION", {action}) at the
\* last price the feed has (the start price when it has none)
DuelOnAction(playerId, action, currentPrice) ==
  /\ duel.phase = "active"
  /\ LET act == duelOnAction(duel.match, duel.data, playerId, action,
                             currentPrice)
     IN /\ act.data.playerAState.opened <= MaxTrades
        /\ act.data.playerBState.opened <= MaxTrades
        /\ duel' = [duel EXCEPT !.data = act.data]
  /\ UNCHANGED notDuel

\* TradeDuelEngine.onComplete with the fresh end price
DuelOnComplete(endPrice) ==
  /\ duel.phase = "active"
  /\ LET stA == closePosition(duel.data.playerAState, endPrice)
         stB == closePosition(duel.data.playerBState, endPrice)
         profitA == stA.virtualBalance - INITIAL_BALANCE
         profitB == stB.virtualBalance - INITIAL_BALANCE
     IN duel' = [duel EXCEPT
                   !.phase = "done",
                   !.data = [@ EXCEPT !.endPrice = endPrice,
                                      !.playerAState = stA,
                                      !.playerBState = stB],
                   !.results = [playerAProfit |-> profitA,
                                playerBProfit |-> profitB],
                   !.winner = TradeDuelWinner(duel.match, profitA, profitB)]
  /\ UNCHANGED notDuel

NextDuel ==
  \/ \E price \in DuelPrices : DuelOnStart(price)
  \/ \E id \in EnginePlayers, a \in DuelActions, price \in DuelPrices :
       DuelOnAction(id, a, price)
  \/ \E price \in DuelPrices : DuelOnComplete(price)

SpecDuel == Init /\ [][NextDuel]_vars

(***************************************************************************)
(* The memory-match engine                                                 *)
(***************************************************************************)
\* EMOJI_POOL, entry by entry as the source lists it
EMOJI_POOL ==
  << "apple", "guitar", "gem", "grapes", "fire",
     "strawberry", "pizza", "donut", "gamepad", "target",
     "apple", "guitar", "gem", "grapes", "melon" >>

GridSize == 30

\* Math.random() readings: 0, 1/2 and the largest value below 1
RandomValues == {0, 1, 2}

\* Math.floor(Math.random() * (i + 1))
randomIndex(r, i) == IF r = 0 THEN 0 ELSE IF r = 1 THEN (i + 1) \div 2 ELSE i

\* the readings of one shuffle: reading k is used at every step i with
\* i % PatternLen = k
PatternLen == 3
ShufflePatterns == [0 .. PatternLen - 1 -> RandomValues]

\* array[idx] of a JavaScript array kept as a sequence
At(array, idx) == array[idx + 1]

\* [array[i], array[j]] = [array[j], array[i]]
Swap(array, i, j) ==
  [array EXCEPT ![i + 1] = At(array, j), ![j + 1] = At(array, i)]

\* MemoryGameEngine.shuffleArray (Fisher-Yates), from step i down to 1
RECURSIVE shuffleFrom(_, _, _)
shuffleFrom(array, i, pattern) ==
  IF i <= 0 THEN array
  ELSE shuffleFrom(Swap(array, i, randomIndex(pattern[i % PatternLen], i)),
                   i - 1, pattern)

shuffleArray(array, pattern) == shuffleFrom(array, Len(array) - 1, pattern)

\* MemoryPlayerState
InitialMemoryState ==
  [score |-> 0, matchedPairs |-> << >>, flippedCards |-> << >>,
   totalFlips |-> 0]

\* MemoryGameEngine.onStart: the matchData object
MemoryGameData(pattern) ==
  [grid |-> shuffleArray(EMOJI_POOL \o EMOJI_POOL, pattern),
   playerAState |-> InitialMemoryState,
   playerBState |-> InitialMemoryState]

\* a cardIndex is any JSON number: the whole numbers stand for themselves
\* and HalfBase + k stands for the number k + 1/2
HalfBase == 1000
Half(k) == HalfBase + k
IsWhole(x) == x < HalfBase

\* !(cardIndex < 0 || cardIndex >= 30) for a cardIndex of type number
InRange(cardIndex) ==
  IF IsWhole(cardIndex) THEN cardIndex >= 0 /\ cardIndex < GridSize
  ELSE cardIndex - HalfBase >= 0 /\ cardIndex - HalfBase < GridSize

\* data.grid[cardIndex]: undefined unless cardIndex is an index of the array
GridAt(grid, cardIndex) ==
  IF IsWhole(cardIndex) /\ cardIndex >= 0 /\ cardIndex < Len(grid)
    THEN At(grid, cardIndex)
    ELSE "undefined"

\* Array.prototype.includes
Includes(array, x) == \E k \in 1 .. Len(array) : array[k] = x

\* the flip that keeps two unmatched cards instead of resetting them
flipCardNoReset(grid, state, cardIndex) ==
  IF Includes(state.matchedPairs, cardIndex)
    THEN [ok |-> FALSE, state |-> state]
  ELSE IF Includes(state.flippedCards, cardIndex)
    THEN [ok |-> FALSE, state |-> state]
  ELSE LET flipped == Append(state.flippedCards, cardIndex)
           st == [state EXCEPT !.flippedCards = flipped, !.totalFlips = @ + 1]
       IN IF Len(flipped) = 2 /\ GridAt(grid, flipped[1]) = GridAt(grid, flipped[2])
            THEN [ok |-> TRUE,
                  state |-> [st EXCEPT !.score = @ + 1,
                                       !.matchedPairs = @ \o flipped,
                                       !.flippedCards = << >>]]
            ELSE [ok |-> TRUE, state |-> st]

\* MemoryGameEngine.onAction on one player's state, from the reset of two
\* unmatched cards on: [ok, state]
flipCard(grid, state, cardIndex) ==
  LET reset == IF Len(state.flippedCards) >= 2
                 THEN [state EXCEPT !.flippedCards = << >>]
                 ELSE state
  IN IF Includes(reset.matchedPairs, cardIndex)
       THEN [ok |-> FALSE, state |-> reset]
     ELSE IF Includes(reset.flippedCards, cardIndex)
       THEN [ok |-> FALSE, state |-> reset]
     ELSE LET flipped == Append(reset.flippedCards, cardIndex)
              st == [reset EXCEPT !.flippedCards = flipped,
                                  !.totalFlips = @ + 1]
          IN IF Len(flipped) = 2
                /\ GridAt(grid, flipped[1]) = GridAt(grid, flipped[2])
               THEN [ok |-> TRUE,
                     state |-> [st EXCEPT !.score = @ + 1,
                                          !.matchedPairs = @ \o flipped,
                                          !.flippedCards = << >>]]
               ELSE [ok |-> TRUE, state |-> st]

\* the engine on a shared board: a card the opponent matched is taken
memOnActionShared(match, data, playerId, cardIndex) ==
  IF ~InRange(cardIndex) THEN [ok |-> FALSE, data |-> data]
  ELSE IF match.playerA = playerId
    THEN IF Includes(data.playerBState.matchedPairs, cardIndex)
           THEN [ok |-> FALSE, data |-> data]
         ELSE LET r == flipCard(data.grid, data.playerAState, cardIndex)
              IN [ok |-> r.ok, data |-> [data EXCEPT !.playerAState = r.state]]
  ELSE IF match.playerB = playerId
    THEN IF Includes(data.playerAState.matchedPairs, cardIndex)
           THEN [ok |-> FALSE, data |-> data]
         ELSE LET r == flipCard(data.grid, data.playerBState, cardIndex)
              IN [ok |-> r.ok, data |-> [data EXCEPT !.playerBState = r.state]]
  ELSE [ok |-> FALSE, data |-> data]

\* MemoryGameEngine.onAction(match, playerId, "GAME_ACTION",
\* {action: "FLIP_CARD", cardIndex}) on the data object: [ok, data]
memOnAction(match, data, playerId, cardIndex) ==
  IF ~InRange(cardIndex) THEN [ok |-> FALSE, data |-> data]
  ELSE IF match.playerA = playerId
    THEN LET r == flipCard(data.grid, data.playerAState, cardIndex)
         IN [ok |-> r.ok, data |-> [data EXCEPT !.playerAState = r.state]]
  ELSE IF match.playerB = playerId
    THEN LET r == flipCard(data.grid, data.playerBState, cardIndex)
         IN [ok |-> r.ok, data |-> [data EXCEPT !.playerBState = r.state]]
  ELSE [ok |-> FALSE, data |-> data]

\* the winner rule that gives a tie to player A
MemoryWinnerTieToA(mt, scoreA, scoreB) ==
  IF scoreA >= scoreB THEN mt.playerA
  ELSE IF scoreB > scoreA /\ mt.playerB # None THEN mt.playerB
  ELSE None

\* MemoryGameEngine.onComplete: the winner for the two scores
MemoryWinner(mt, scoreA, scoreB) ==
  IF scoreA > scoreB THEN mt.playerA
  ELSE IF scoreB > scoreA /\ mt.playerB # None THEN mt.playerB
  ELSE None

(***************************************************************************)
(* Specification of the memory-match engine alone                          *)
(***************************************************************************)
MaxFlips == 4
FlipCards == {0, 1, 2, 10, 30}

notMem == << coreVars, pred, duel, psvc, chain, bridge, host >>

\* MemoryGameEngine.onStart with the readings its shuffle takes
MemOnStart(pattern) ==
  /\ mem.phase = "idle"
  /\ mem' = [phase |-> "active",
             match |-> [playerA |-> "e1", playerB |-> "e2"],
             data |-> MemoryGameData(pattern),
             lastOk |-> TRUE,
             winner |-> None]
  /\ UNCHANGED notMem

\* MemoryGameEngine.onAction; lastOk is the value it returned
MemOnAction(playerId, cardIndex) ==
  /\ mem.phase = "active"
  /\ LET act == memOnAction(mem.match, mem.data, playerId, cardIndex)
     IN /\ act.data.playerAState.totalFlips <= MaxFlips
        /\ act.data.playerBState.totalFlips <= MaxFlips
        /\ mem' = [mem EXCEPT !.data = act.data, !.lastOk = act.ok]
  /\ UNCHANGED notMem

\* MemoryGameEngine.onComplete
MemOnComplete ==
  /\ mem.phase = "active"
  /\ mem' = [mem EXCEPT
               !.phase = "done",
               !.winner = MemoryWinner(mem.match, mem.data.playerAState.score,
                                       mem.data.playerBState.score)]
  /\ UNCHANGED notMem

NextMemory ==
  \/ \E pattern \in ShufflePatterns : MemOnStart(pattern)
  \/ \E id \in EnginePlayers, card \in FlipCards : MemOnAction(id, card)
  \/ MemOnComplete

SpecMemory == Init /\ [][NextMemory]_vars

\* the memory-match engine under FLIP_CARD payloads whose cardIndex is any
\* number, whole or not
RawCards == {0, 10, Half(0), Half(1), Half(30)}

NextMemoryRaw ==
  \/ \E pattern \in ShufflePatterns : MemOnStart(pattern)
  \/ \E id \in EnginePlayers, card \in RawCards : MemOnAction(id, card)
  \/ MemOnComplete

SpecMemoryRaw == Init /\ [][NextMemoryRaw]_vars

(***************************************************************************)
(* Specification of the price service alone: calls of getPrice and         *)
(* getFreshPrice, the clock, and the feed answering or failing each fetch  *)
(***************************************************************************)
cacheMs == 5000
TickMs == 3000
MaxNow == 6000
MaxCalls == 3
FeedPrices == {100, 101}

\* (Math.random() - 0.5) * 50
MockNoise == {-25, 0}

\* the base of the mock price of fetchFromApi
MockBase(asset) ==
  IF asset = "BTC/USD" THEN 65000 ELSE IF asset = "SOL/USD" THEN 140 ELSE 2500

notPrice == << coreVars, pred, duel, mem, chain, bridge, host >>

\* getPrice's first lines: an asset outside ASSET_ID_MAP is served as ETH/USD
AssetKey(asset) == IF asset \in KnownAssets THEN asset ELSE "ETH/USD"

\* getPrice's cache test
CacheValid(cache, asset, now) ==
  cache[asset] # NoReading /\ now - cache[asset].timestamp < cacheMs

\* getPrice up to its return or to the await of fetch, on the given cache;
\* kind and asset are those of the outer call, held the reading cached for
\* the asset when the outer call began
getPrice(kind, asset, cache, held) ==
  LET key == AssetKey(asset)
      hit == CacheValid(cache, key, psvc.now)
      call == [kind |-> kind, asset |-> asset, key |-> key, at |-> psvc.now,
               held |-> held,
               st |-> IF hit THEN "done" ELSE "fetching",
               fetched |-> ~hit,
               outcome |-> None,
               prior |-> NoReading,
               res |-> IF hit THEN cache[key] ELSE NoReading]
  IN psvc' = [psvc EXCEPT !.cache = cache,
                          !.fetches = IF hit THEN @ ELSE @ + 1,
                          !.calls = Append(@, call)]

\* PriceService.getPrice(asset)
GetPrice(asset) ==
  /\ Len(psvc.calls) < MaxCalls
  /\ getPrice("getPrice", asset, psvc.cache, psvc.cache[AssetKey(asset)])
  /\ UNCHANGED notPrice

\* PriceService.getFreshPrice(asset): cache.delete(asset), then getPrice
GetFreshPrice(asset) ==
  /\ Len(psvc.calls) < MaxCalls
  /\ getPrice("getFreshPrice", asset,
              [psvc.cache EXCEPT ![asset] = NoReading],
              psvc.cache[AssetKey(asset)])
  /\ UNCHANGED notPrice

\* fetchFromApi after its awaits, the feed having answered with a price
FetchOk(i, price) ==
  /\ i \in 1 .. Len(psvc.calls)
  /\ psvc.calls[i].st = "fetching"
  /\ LET key == psvc.calls[i].key
         priceData == PriceData(price, psvc.now, "coingecko", i)
     IN psvc' = [psvc EXCEPT !.cache[key] = priceData,
                             !.latest[key] = priceData,
                             !.calls[i].st = "done",
                             !.calls[i].outcome = "ok",
                             !.calls[i].prior = psvc.latest[key],
                             !.calls[i].res = priceData]
  /\ UNCHANGED notPrice

\* fetchFromApi's catch block: fetch rejected, status not ok, or no price
FetchFail(i, noise) ==
  /\ i \in 1 .. Len(psvc.calls)
  /\ psvc.calls[i].st = "fetching"
  /\ LET key == psvc.calls[i].key
         cached == psvc.cache[key]
         mockPrice == PriceData(MockBase(key) + noise, psvc.now, "mock", i)
     IN psvc' = [psvc EXCEPT !.calls[i].st = "done",
                             !.calls[i].outcome = "failed",
                             !.calls[i].prior = psvc.latest[key],
                             !.calls[i].res = IF cached # NoReading THEN cached
                                              ELSE mockPrice]
  /\ UNCHANGED notPrice

\* time passes
Tick ==
  /\ psvc.now + TickMs <= MaxNow
  /\ psvc' = [psvc EXCEPT !.now = @ + TickMs]
  /\ UNCHANGED notPrice

NextPrice ==
  \/ \E asset \in PriceAssets : GetPrice(asset)
  \/ \E asset \in PriceAssets : GetFreshPrice(asset)
  \/ \E i \in 1 .. MaxCalls, price \in FeedPrices : FetchOk(i, price)
  \/ \E i \in 1 .. MaxCalls, noise \in MockNoise : FetchFail(i, noise)
  \/ Tick

SpecPrice == Init /\ [][NextPrice]_vars

(***************************************************************************)
(* Specification of the EdgeTreasury contract alone: transactions of the   *)
(* owner and of other accounts.  A reverted transaction changes nothing    *)
(* but lastTx and sender, which record what was last sent and by whom.     *)
(* Amounts are far below                                                   *)
(* 2^256, so the checked arithmetic of the contract never overflows.       *)
(***************************************************************************)
MaxSettles == 2
Amounts == {0, 2, 39, 40, 100}
DepositAmounts == {0, 100}
RevenueAmounts == {1, 2}
RakeValues == {0, 250, 500, 501}
Callers == {Owner, "p1"}
Winners == {"p1", "p2", ZeroAddress}

notChain == << coreVars, pred, duel, mem, psvc, bridge, host >>

\* a transaction that reverted
Reverted(op, caller) ==
  chain' = [chain EXCEPT !.lastTx = [op |-> op, reverted |-> TRUE],
                         !.sender = caller]

\* IERC20.transfer / transferFrom of the token
Transfer(balanceOf, from, to, amount) ==
  [a \in Accounts |->
     balanceOf[a] - (IF a = from THEN amount ELSE 0)
                  + (IF a = to THEN amount ELSE 0)]

\* the modifier that lets every account through
onlyOwnerAnyone(caller) == TRUE

\* Ownable.onlyOwner: msg.sender is the owner
onlyOwner(caller) == caller = Owner

\* the rake rounded up instead of down
RakeCeil(amount, rakeBps) ==
  (amount * rakeBps + BPS_DENOMINATOR - 1) \div BPS_DENOMINATOR

\* settleMatch: (amount * rakeBps) / BPS_DENOMINATOR in uint256
Rake(amount, rakeBps) == (amount * rakeBps) \div BPS_DENOMINATOR

\* EdgeTreasury.deposit(amount) sent by a player
EdgeTreasury_deposit(caller, amount) ==
  /\ IF amount = 0 \/ chain.balanceOf[caller] < amount
       THEN Reverted("deposit", caller)
       ELSE chain' = [chain EXCEPT
                        !.balanceOf = Transfer(@, caller, TreasuryAddress,
                                               amount),
                        !.lastTx = [op |-> "deposit", reverted |-> FALSE],
                        !.sender = caller]
  /\ UNCHANGED notChain

\* EdgeTreasury.settleMatch(winner, amount, matchId)
EdgeTreasury_settleMatch(caller, winner, amount) ==
  /\ chain.totalMatchesSettled < MaxSettles
  /\ IF \/ ~onlyOwner(caller)
        \/ winner = ZeroAddress
        \/ amount = 0
        \/ chain.balanceOf[TreasuryAddress] < amount
       THEN Reverted("settleMatch", caller)
       ELSE LET rake == Rake(amount, chain.rakeBps)
                netPayout == amount - rake
            IN chain' = [chain EXCEPT
                           !.protocolRevenue = @ + rake,
                           !.totalMatchesSettled = @ + 1,
                           !.totalVolume = @ + amount,
                           !.balanceOf = Transfer(@, TreasuryAddress, winner,
                                                  netPayout),
                           !.lastTx = [op |-> "settleMatch",
                                       reverted |-> FALSE],
                           !.sender = caller]
  /\ UNCHANGED notChain

\* EdgeTreasury.setRake(newRakeBps)
EdgeTreasury_setRake(caller, newRakeBps) ==
  /\ IF ~onlyOwner(caller) \/ newRakeBps > MAX_RAKE_BPS
       THEN Reverted("setRake", caller)
       ELSE chain' = [chain EXCEPT
                        !.rakeBps = newRakeBps,
                        !.lastTx = [op |-> "setRake", reverted |-> FALSE],
                        !.sender = caller]
  /\ UNCHANGED notChain

\* EdgeTreasury.withdrawRevenue(to, amount); the token transfer reverts when
\* the contract holds less than amount
EdgeTreasury_withdrawRevenue(caller, to, amount) ==
  /\ IF \/ ~onlyOwner(caller)
        \/ to = ZeroAddress
        \/ amount > chain.protocolRevenue
        \/ chain.balanceOf[TreasuryAddress] < amount
       THEN Reverted("withdrawRevenue", caller)
       ELSE chain' = [chain EXCEPT
                        !.protocolRevenue = @ - amount,
                        !.balanceOf = Transfer(@, TreasuryAddress, to, amount),
                        !.lastTx = [op |-> "withdrawRevenue",
                                    reverted |-> FALSE],
                        !.sender = caller]
  /\ UNCHANGED notChain

NextTreasury ==
  \/ \E amount \in DepositAmounts : EdgeTreasury_deposit("p1", amount)
  \/ \E c \in Callers, w \in Winners, amount \in Amounts :
       EdgeTreasury_settleMatch(c, w, amount)
  \/ \E c \in Callers, r \in RakeValues : EdgeTreasury_setRake(c, r)
  \/ \E c \in Callers, amount \in RevenueAmounts :
       EdgeTreasury_withdrawRevenue(c, Owner, amount)

SpecTreasury == Init /\ [][NextTreasury]_vars

(***************************************************************************)
(* Specification of the settlement bridge with MatchService.settleMatch    *)
(* on one COMPLETED match.  Results carry amounts in ten-thousandths of a   *)
(* USDC, the resolution of toFixed(4); the stakes are whole USDC, so the   *)
(* contract's rake on them is whole in this unit as well.                  *)
(***************************************************************************)
ServiceRakeBps == 250
UsdcUnit == 10000
BridgeStakes == {1, 10, 25, 50}
BridgeWinners == {"e1", "e2", None}

\* how a call of a configured bridge ends: confirmed on the ledger, failed
\* before anything was submitted, failed after the transaction was submitted
LedgerOutcomes == {"confirmed", "notSubmitted", "reverted"}

notBridge == << coreVars, pred, duel, mem, psvc, chain, host >>

\* TreasuryService.handleUnconfigured(grossAmount)
handleUnconfigured(grossAmount) ==
  LET rake == (grossAmount * UsdcUnit * ServiceRakeBps) \div BPS_DENOMINATOR
  IN [status |-> "failed", submitted |-> FALSE,
      grossAmount |-> grossAmount * UsdcUnit,
      rake |-> rake,
      netPayout |-> grossAmount * UsdcUnit - rake]

\* parseSettlementEvent: the amounts of the contract's MatchSettled event
parseSettlementEvent(amountWei) ==
  [grossAmount |-> amountWei,
   rake |-> Rake(amountWei, DefaultRakeBps),
   netPayout |-> amountWei - Rake(amountWei, DefaultRakeBps)]

\* TreasuryService.settleMatch(winner, grossAmount, matchId): its result
TreasurySettleMatch(configured, grossAmount, outcome) ==
  IF ~configured THEN handleUnconfigured(grossAmount)
  ELSE IF outcome = "confirmed"
    THEN LET ev == parseSettlementEvent(grossAmount * UsdcUnit)
         IN [status |-> "confirmed", submitted |-> TRUE,
             grossAmount |-> ev.grossAmount, rake |-> ev.rake,
             netPayout |-> ev.netPayout]
  ELSE [status |-> "failed", submitted |-> outcome = "reverted",
        grossAmount |-> grossAmount * UsdcUnit, rake |-> 0, netPayout |-> 0]

\* TreasuryService.refundStake(player, amount, refundId): its result
refundStake(configured, amount, outcome) ==
  IF ~configured
    THEN [status |-> "confirmed", submitted |-> FALSE,
          grossAmount |-> amount * UsdcUnit, rake |-> 0,
          netPayout |-> amount * UsdcUnit]
  ELSE IF outcome = "confirmed"
    THEN LET ev == parseSettlementEvent(amount * UsdcUnit)
         IN [status |-> "confirmed", submitted |-> TRUE,
             grossAmount |-> ev.grossAmount, rake |-> ev.rake,
             netPayout |-> ev.netPayout]
  ELSE [status |-> "failed", submitted |-> outcome = "reverted",
        grossAmount |-> amount * UsdcUnit, rake |-> 0,
        netPayout |-> amount * UsdcUnit]

\* the draw status that looks at player A's refund only
DrawStatusAOnly(statusA, statusB) ==
  IF statusA = "confirmed" THEN "confirmed" ELSE "failed"

\* MatchService.settleMatch, draw branch: the settlement status
DrawStatus(statusA, statusB) ==
  IF statusA = "confirmed" /\ statusB = "confirmed" THEN "confirmed"
  ELSE "failed"

\* TreasuryServiceClass constructor: configured only with a key and a
\* treasury address
BridgeConstruct(configured) ==
  /\ bridge.phase = "new"
  /\ bridge' = [phase |-> "ready", configured |-> configured,
                match |-> NoMatch, calls |-> << >>, sent |-> << >>]
  /\ UNCHANGED notBridge

\* a call of the bridge in flight
BridgeCall(fn, to, amount) ==
  [fn |-> fn, to |-> to, amount |-> amount, status |-> "pending",
   submitted |-> FALSE]

\* MatchService.settleMatch on a COMPLETED match up to its first await
BridgeSettleBegin(stake, winner) ==
  /\ bridge.phase = "ready"
  /\ LET match == [status |-> SETTLING, playerA |-> "e1", playerB |-> "e2",
                   stake |-> stake, winner |-> winner, settlement |-> None]
         call == IF winner # None
                   THEN BridgeCall("settleMatch", winner, stake * 2)
                   ELSE BridgeCall("refundStake", match.playerA, stake)
     IN bridge' = [bridge EXCEPT !.phase = "awaiting",
                                 !.match = match,
                                 !.calls = << call >>,
                                 !.sent = << "SETTLEMENT_STARTED" >>]
  /\ UNCHANGED notBridge

\* MatchService.settleMatch resumed after a bridge call returned
BridgeResume(outcome) ==
  /\ bridge.phase = "awaiting"
  /\ LET n == Len(bridge.calls)
         call == bridge.calls[n]
         match == bridge.match
         res == IF call.fn = "settleMatch"
                  THEN TreasurySettleMatch(bridge.configured, call.amount,
                                           outcome)
                  ELSE refundStake(bridge.configured, call.amount, outcome)
         calls == [bridge.calls EXCEPT ![n].status = res.status,
                                       ![n].submitted = res.submitted]
         finish(settlement) ==
           bridge' = [bridge EXCEPT
                        !.phase = "settled",
                        !.calls = calls,
                        !.match = [match EXCEPT !.status = SETTLED,
                                                !.settlement = settlement],
                        !.sent = Append(@, IF settlement.status = "confirmed"
                                             THEN "SETTLEMENT_COMPLETE"
                                             ELSE "SETTLEMENT_FAILED")]
     IN IF call.fn = "settleMatch"
          THEN finish([status |-> res.status,
                       grossAmount |-> res.grossAmount,
                       rake |-> res.rake, netPayout |-> res.netPayout])
        ELSE IF n = 1 /\ match.playerB # None
          THEN bridge' = [bridge EXCEPT
                            !.calls = Append(calls,
                                             BridgeCall("refundStake",
                                                        match.playerB,
                                                        match.stake)),
                            !.match = [match EXCEPT !.settlement =
                                         [status |-> res.status,
                                          grossAmount |-> res.grossAmount,
                                          rake |-> res.rake,
                                          netPayout |-> res.netPayout]]]
        ELSE LET resultA == IF n = 1 THEN [status |-> res.status,
                                            rake |-> res.rake,
                                            netPayout |-> res.netPayout]
                             ELSE match.settlement
                 statusB == IF n = 1 THEN "confirmed" ELSE res.status
             IN finish([status |-> DrawStatus(resultA.status, statusB),
                        grossAmount |-> match.stake * UsdcUnit,
                        rake |-> resultA.rake,
                        netPayout |-> resultA.netPayout])
  /\ UNCHANGED notBridge

NextBridge ==
  \/ \E configured \in BOOLEAN : BridgeConstruct(configured)
  \/ \E stake \in BridgeStakes, winner \in BridgeWinners :
       BridgeSettleBegin(stake, winner)
  \/ \E outcome \in LedgerOutcomes : BridgeResume(outcome)

SpecBridge == Init /\ [][NextBridge]_vars

(***************************************************************************)
(* Properties of the queue (SpecQueue)                                     *)
(***************************************************************************)
\* the bucket the last findMatch call looked at, as it was before the call
LastBucket ==
  qLast.before[getQueueKey(qLast.stake, qLast.gameType, qLast.asset)]

\* C9: findMatch never returns an entry of the caller; when every entry of
\* the bucket is the caller's it returns nothing and leaves the queue as it was
C9_NeverOwnEntry ==
  qLast.caller # None =>
    /\ qLast.matched.playerId # qLast.caller
    /\ (\A i \in 1..Len(LastBucket) : LastBucket[i].playerId = qLast.caller)
         => /\ qLast.matched = NoEntry
            /\ queues = qLast.before

\* C9 witness: the caller's own entry was at the head of the bucket, ahead
\* of another player's entry, and the call returned an entry
C9_Witness ==
  /\ qLast.caller # None
  /\ Len(LastBucket) >= 2
  /\ LastBucket[1].playerId = qLast.caller
  /\ qLast.matched # NoEntry

\* C10: findMatch returns the earliest entry of exactly the caller's bucket
\* that is not the caller's, removes it and the caller's entry from that
\* bucket, keeps the rest of the bucket in order and every other bucket as is
C10_FifoWithinBucket ==
  qLast.caller # None =>
    LET key == getQueueKey(qLast.stake, qLast.gameType, qLast.asset)
        others == { i \in 1..Len(LastBucket) :
                      LastBucket[i].playerId # qLast.caller }
    IN /\ \A k \in DOMAIN queues : k # key => queues[k] = qLast.before[k]
       /\ IF others = {}
            THEN qLast.matched = NoEntry /\ queues[key] = LastBucket
            ELSE /\ \E i \in others :
                      /\ \A j \in others : i <= j
                      /\ qLast.matched = LastBucket[i]
                 /\ qLast.matched.stake = qLast.stake
                 /\ qLast.matched.gameType = qLast.gameType
                 /\ qLast.matched.asset = qLast.asset
                 /\ queues[key] =
                      SelectSeq(LastBucket,
                                LAMBDA e : e.playerId \notin
                                  { qLast.matched.playerId, qLast.caller })

\* C10 witness: a bucket of three, one of them the caller's, was matched and
\* one entry of it stayed behind
C10_Witness ==
  /\ qLast.caller # None
  /\ Len(LastBucket) = 3
  /\ \E i \in 1..3 : LastBucket[i].playerId = qLast.caller
  /\ qLast.matched # NoEntry
  /\ Len(queues[getQueueKey(qLast.stake, qLast.gameType, qLast.asset)]) = 1

(***************************************************************************)
(* Properties of the match lifecycle                                       *)
(***************************************************************************)
\* position of a status in WAITING .. SETTLED
Rank(status) == CHOOSE i \in 1..Len(StatusOrder) : StatusOrder[i] = status

\* one step keeps the stored status of m, moves it to the next status, creates
\* the record in WAITING or PROPOSED, or deletes it while WAITING or PROPOSED
StatusStep(m) ==
  IF Exists(matches, m)
    THEN IF Exists(matches', m)
           THEN \/ matches'[m].status = matches[m].status
                \/ Rank(matches'[m].status) = Rank(matches[m].status) + 1
           ELSE matches[m].status \in {WAITING, PROPOSED}
    ELSE Exists(matches', m) => matches'[m].status \in {WAITING, PROPOSED}

\* C1: the statuses stored for a match form a prefix of WAITING, PROPOSED,
\* ACTIVE, COMPLETED, SETTLING, SETTLED, nothing skipped or re-entered, and a
\* record is deleted only while WAITING or PROPOSED
C1_StatusPrefix == [][\A m \in MatchIds : StatusStep(m)]_vars

\* C2: the ledger receives at most one winner payout per match and at most
\* one refund per player of a drawn match
C2_ExactlyOnce ==
  \A m \in MatchIds :
    /\ ledger[m].payout <= 1
    /\ ledger[m].refundA <= 1
    /\ ledger[m].refundB <= 1

\* the ledger calls of m that are in flight
InFlight(f, m) ==
  f[m]["win"] + f[m]["refundA"] + f[m]["refundB_aok"] + f[m]["refundB_afail"]

\* the 3 s callback ran settleMatch on a COMPLETED match
SettleBegins(m) ==
  /\ settleTimers'[m] < settleTimers[m]
  /\ matches[m].status = COMPLETED

\* the last ledger call of a settleMatch run resolved, in phase ph
SettleResolves(m, ph) ==
  /\ ph \in {"win", "refundB_aok", "refundB_afail"}
  /\ inSettle'[m][ph] < inSettle[m][ph]

\* C3: settleMatch on a COMPLETED match stores SETTLING and makes one ledger
\* call; when its last ledger call resolves it stores SETTLED whether the
\* ledger confirmed or failed, a failure shows only in settlement (failed) and
\* is announced with SETTLEMENT_FAILED, a confirmation with
\* SETTLEMENT_COMPLETE, and no further ledger call or settle callback is made
C3_SettleAlwaysSettles ==
  [][\A m \in MatchIds :
       /\ SettleBegins(m) =>
            /\ matches'[m].status = SETTLING
            /\ matches'[m].settlement = matches[m].settlement
            /\ InFlight(inSettle', m) = InFlight(inSettle, m) + 1
       /\ \A ph \in SettlePhases : SettleResolves(m, ph) =>
            LET ok == ledger'[m].last = "confirmed" /\ ph # "refundB_afail"
            IN /\ matches'[m].status = SETTLED
               /\ matches'[m].settlement = IF ok THEN "confirmed" ELSE "failed"
               /\ Len(sent') = 1
               /\ sent'[1].type = IF ok THEN "SETTLEMENT_COMPLETE"
                                  ELSE "SETTLEMENT_FAILED"
               /\ sent'[1].to = Parties(matches[m])
               /\ InFlight(inSettle', m) = InFlight(inSettle, m) - 1
               /\ settleTimers' = settleTimers
               /\ ledger'[m].payout + ledger'[m].refundA + ledger'[m].refundB
                    <= ledger[m].payout + ledger[m].refundA + ledger[m].refundB + 1
     ]_vars

\* C3 witness: a winner payout failed at the ledger and the match is SETTLED
\* with a failed settlement, announced with SETTLEMENT_FAILED
C3_Witness ==
  \E m \in MatchIds :
    /\ matches[m].status = SETTLED
    /\ matches[m].settlement = "failed"
    /\ matches[m].winner # None
    /\ ledger[m].last = "failed"
    /\ Len(sent) = 1
    /\ sent[1].type = "SETTLEMENT_FAILED"

\* m is stored with one of the given statuses
InStatus(m, S) == Exists(matches, m) /\ matches[m].status \in S

\* a socket that was connected leaves OPEN, or its close / error is handled
DisconnectStep == \E c \in Conns : sock[c] # "new" /\ sock'[c] # sock[c]

\* C4: a match that became ACTIVE eventually is SETTLED when timers fire and
\* the price and ledger calls return; a match that is ACTIVE, COMPLETED or
\* SETTLING is never deleted, and a disconnect changes neither its record nor
\* its timers nor its calls in flight
C4_ActiveEventuallySettled ==
  /\ \A m \in MatchIds : InStatus(m, {ACTIVE}) ~> InStatus(m, {SETTLED})
  /\ [][\A m \in MatchIds :
          InStatus(m, {ACTIVE, COMPLETED, SETTLING}) =>
            /\ Exists(matches', m)
            /\ DisconnectStep =>
                 /\ matches'[m] = matches[m]
                 /\ durPending'[m] = durPending[m]
                 /\ settleTimers'[m] = settleTimers[m]
                 /\ inComplete'[m] = inComplete[m]
                 /\ inSettle'[m] = inSettle[m]
       ]_vars

\* C4 witness: the match is SETTLED and both sockets have closed, neither
\* party is registered any more
C4_Witness ==
  \E m \in MatchIds :
    /\ InStatus(m, {SETTLED})
    /\ \A c \in Conns : sock[c] = "done"
    /\ \A id \in Ids : ~Has(players, id)

(***************************************************************************)
(* Properties of proposal, acceptance, disconnect and release              *)
(***************************************************************************)
\* the registered players whose current-match association is m
Associated(ps, m) == { id \in Ids : Has(ps, id) /\ ps[id].currentMatchId = m }

\* the step emitted an ERROR for match m that reached every id of S
ErrorReached(m, S) ==
  \E i \in 1..Len(sent') :
    /\ sent'[i].type = "ERROR"
    /\ sent'[i].matchId = m
    /\ S \subseteq sent'[i].delivered

\* the parties of m that can be reached: registered with m as their match,
\* socket OPEN
Reachable(m) ==
  { id \in Associated(players, m) : sock'[players[id].socket] = "open" }

\* the accept-timeout of m fires (the step is not an accept that clears it)
TimeoutFires(m) ==
  /\ proposalTimers[m] = "armed"
  /\ proposalTimers'[m] # "armed"
  /\ inStart'[m] = inStart[m]

\* C5: when the accept-timeout of a PROPOSED match fires before both parties
\* accepted, the record is deleted, both parties are sent ERROR and no
\* player keeps the match as current match
C5_TimeoutCancels ==
  [][\A m \in MatchIds :
       TimeoutFires(m) /\ InStatus(m, {PROPOSED}) =>
         /\ ~Exists(matches', m)
         /\ ErrorReached(m, Reachable(m))
         /\ Associated(players', m) = {}
     ]_vars

\* a startMatch call of m was made
StartTriggered(m) == inStart[m] + timerCount[m] > 0

\* C6: startMatch is called only by an accept on a PROPOSED match whose
\* acceptance set then holds both playerA and playerB, one of them from an
\* earlier accept; that step leaves no accept-timeout armed, none is armed
\* while a start was made, and such a match is never deleted
C6_StartNeedsBoth ==
  [][\A m \in MatchIds :
       /\ inStart'[m] > inStart[m] =>
            /\ InStatus(m, {PROPOSED})
            /\ \E c \in Conns :
                 /\ sock[c] = "open"
                 /\ socketToPlayer[c] # None
                 /\ { matches[m].playerA, matches[m].playerB }
                      \subseteq acceptedPlayers[m] \cup { socketToPlayer[c] }
                 /\ acceptedPlayers[m] \cap
                      { matches[m].playerA, matches[m].playerB } # {}
            /\ proposalTimers'[m] = "none"
       /\ StartTriggered(m) =>
            /\ proposalTimers[m] = "none"
            /\ proposalTimers'[m] = "none"
            /\ Exists(matches, m) => Exists(matches', m)
     ]_vars

\* C6 witness: both parties accepted, startMatch was called and is awaiting
\* the price, and a party has accepted once more
C6_Witness ==
  \E m \in MatchIds :
    /\ InStatus(m, {PROPOSED})
    /\ inStart[m] = 1
    /\ matches[m].playerA \in acceptedPlayers[m]

\* the close or error of connection c is handled for the player it maps to
DisconnectHandled(c) ==
  /\ socketToPlayer[c] # None
  /\ socketToPlayer'[c] = None
  /\ sock'[c] # sock[c]

\* C7: handling the disconnect of a player whose match is WAITING or
\* PROPOSED deletes the record, notifies the party that is still reachable
\* with ERROR and clears every association with the match
C7_DisconnectCancels ==
  [][\A c \in Conns, m \in MatchIds :
       /\ DisconnectHandled(c)
       /\ socketToPlayer[c] \in Associated(players, m)
       /\ InStatus(m, {WAITING, PROPOSED})
       => /\ ~Exists(matches', m)
          /\ ErrorReached(m, Reachable(m) \ { socketToPlayer[c] })
          /\ Associated(players', m) = {}
     ]_vars

\* C8: once settleMatch resolved (the match is SETTLED), no registered player
\* has the match as current match any more
C8_SettledReleasesBoth ==
  \A m \in MatchIds : InStatus(m, {SETTLED}) => Associated(players, m) = {}

(***************************************************************************)
(* Properties of the game engines                                          *)
(***************************************************************************)
\* C11: the prediction engine's onComplete gives a draw when the end price
\* equals the start price, a draw when neither predicted, the one player who
\* predicted when only one did, the one player whose prediction matches the
\* direction when both predicted and only one is right, a draw otherwise
C11_PredictionTable ==
  pred.phase = "done" =>
    LET start == pred.data.startPrice
        end == pred.data.endPrice
        a == pred.data.predictionA
        b == pred.data.predictionB
        dir == IF end > start THEN "UP" ELSE "DOWN"
        expected ==
          CASE end = start -> None
            [] end # start /\ a = None /\ b = None -> None
            [] end # start /\ a # None /\ b = None -> "e1"
            [] end # start /\ a = None /\ b # None -> "e2"
            [] end # start /\ a # None /\ b # None /\ a = dir /\ b # dir -> "e1"
            [] end # start /\ a # None /\ b # None /\ a # dir /\ b = dir -> "e2"
            [] OTHER -> None
    IN pred.winner = expected

\* C11 witness: only player A predicted, the price did not move, and the
\* result is a draw
C11_Witness ==
  /\ pred.phase = "done"
  /\ pred.data.predictionA # None
  /\ pred.data.predictionB = None
  /\ pred.data.endPrice = pred.data.startPrice
  /\ pred.winner = None

\* C12: the trade-duel engine's onComplete leaves no position open and
\* decides by realized profit (final balance minus initial balance): both
\* profits <= 0 give no winner even when they differ; otherwise the strictly
\* higher profit wins, so a profit > 0 beats a player who never traded (whose
\* profit is 0); equal positive profits give a draw
C12_DuelByProfit ==
  duel.phase = "done" =>
    LET stA == duel.data.playerAState
        stB == duel.data.playerBState
        profitA == stA.virtualBalance - INITIAL_BALANCE
        profitB == stB.virtualBalance - INITIAL_BALANCE
    IN /\ stA.position = NoPosition /\ stB.position = NoPosition
       /\ duel.results = [playerAProfit |-> profitA, playerBProfit |-> profitB]
       /\ stA.opened = 0 => profitA = 0
       /\ stB.opened = 0 => profitB = 0
       /\ profitA <= 0 /\ profitB <= 0 => duel.winner = None
       /\ profitA > 0 /\ profitA > profitB => duel.winner = "e1"
       /\ profitB > 0 /\ profitB > profitA => duel.winner = "e2"
       /\ profitA = profitB => duel.winner = None

\* C12 witness: both players traded and lost different amounts, and there is
\* no winner
C12_Witness ==
  /\ duel.phase = "done"
  /\ duel.results.playerAProfit < duel.results.playerBProfit
  /\ duel.results.playerBProfit < 0
  /\ duel.winner = None

\* the cards of a board that show symbol s
CardsWith(grid, s) == {k \in 1 .. Len(grid) : grid[k] = s}

SymbolsOf(grid) == {grid[k] : k \in 1 .. Len(grid)}

\* C13: every board generated by the memory-match engine's onStart has
\* exactly 30 cards made of 15 distinct symbols, each on exactly two cards
C13_BoardPairs ==
  mem.phase # "idle" =>
    /\ Len(mem.data.grid) = 30
    /\ Cardinality(SymbolsOf(mem.data.grid)) = 15
    /\ \A s \in SymbolsOf(mem.data.grid) :
         Cardinality(CardsWith(mem.data.grid, s)) = 2

\* the state the memory-match engine keeps for a party
MemStateOf(data, id) == IF id = "e1" THEN data.playerAState ELSE data.playerBState

Elements(array) == {array[k] : k \in 1 .. Len(array)}

\* what a FLIP_CARD of a valid card by a party must do
FlipExpected(id, card) ==
  LET data == mem.data
      before == MemStateOf(data, id)
      after == MemStateOf(mem'.data, id)
      opponent == IF id = "e1" THEN "e2" ELSE "e1"
      held == IF Len(before.flippedCards) = 2 THEN << >>
              ELSE before.flippedCards
      rejected == card \in Elements(before.matchedPairs)
                  \/ card \in Elements(held)
      second == ~rejected /\ Len(held) = 1
      equal == second /\ At(data.grid, held[1]) = At(data.grid, card)
  IN /\ mem'.lastOk = ~rejected
     /\ mem'.data.grid = data.grid
     /\ MemStateOf(mem'.data, opponent) = MemStateOf(data, opponent)
     /\ rejected =>
          /\ after.flippedCards = held
          /\ after.score = before.score
          /\ after.matchedPairs = before.matchedPairs
     /\ ~rejected /\ ~second =>
          /\ after.flippedCards = << card >>
          /\ after.score = before.score
          /\ after.matchedPairs = before.matchedPairs
     /\ second /\ equal =>
          /\ after.score = before.score + 1
          /\ Elements(after.matchedPairs)
               = Elements(before.matchedPairs) \cup {held[1], card}
          /\ after.flippedCards = << >>
     /\ second /\ ~equal =>
          /\ after.flippedCards = << held[1], card >>
          /\ after.score = before.score
          /\ after.matchedPairs = before.matchedPairs

\* C14: a FLIP_CARD of the acting player first discards a pair of two
\* flipped, unmatched cards the player holds; it is then rejected (false) for
\* a card in the player's matched set or a card the player has flipped; on
\* the second flip of a pair equal symbols add one to the score and put both
\* indices into the matched set, otherwise both cards stay flipped until the
\* player's next flip
C14_FlipRules ==
  [][\A id \in {"e1", "e2"}, card \in FlipCards :
       (card >= 0 /\ card < GridSize /\ MemOnAction(id, card))
         => FlipExpected(id, card)]_vars

\* C14 witness: a player's third flip discarded two unmatched cards
C14_Witness ==
  /\ mem.phase = "active"
  /\ mem.data.playerAState.totalFlips = 3
  /\ mem.data.playerAState.score = 0
  /\ Len(mem.data.playerAState.flippedCards) = 1
  /\ mem.lastOk

\* C15: the memory-match engine's onComplete returns the player with the
\* strictly higher score as winner and no winner when the scores are equal
C15_HigherScoreWins ==
  mem.phase = "done" =>
    LET scoreA == mem.data.playerAState.score
        scoreB == mem.data.playerBState.score
    IN /\ scoreA > scoreB => mem.winner = "e1"
       /\ scoreB > scoreA => mem.winner = "e2"
       /\ scoreA = scoreB => mem.winner = None

\* C15 witness: both players matched one pair and there is no winner
C15_Witness ==
  /\ mem.phase = "done"
  /\ mem.data.playerAState.score = 1
  /\ mem.data.playerBState.score = 1
  /\ mem.winner = None

(***************************************************************************)
(* Properties of the price service (SpecPrice)                             *)
(***************************************************************************)
\* the calls that have returned
Returned == {i \in 1 .. Len(psvc.calls) : psvc.calls[i].st = "done"}

\* C16: two getPrice calls for one asset made less than the 5 s cache window
\* apart, with no fetch failing and no getFreshPrice for the asset called
\* from the first to the second, return the identical reading and cause at
\* most one fetch between them; a getFreshPrice call for a supported asset
\* always fetches and never returns a reading that was cached before the call
C16_CacheWindow ==
  /\ \A i, j \in Returned :
       (/\ i < j
        /\ psvc.calls[i].kind = "getPrice" /\ psvc.calls[j].kind = "getPrice"
        /\ psvc.calls[i].asset = psvc.calls[j].asset
        /\ psvc.calls[j].at - psvc.calls[i].at < cacheMs
        /\ psvc.calls[i].outcome # "failed" /\ psvc.calls[j].outcome # "failed"
        /\ \A k \in 1 .. j : psvc.calls[k].kind = "getPrice")
       => /\ psvc.calls[i].res = psvc.calls[j].res
          /\ ~(psvc.calls[i].fetched /\ psvc.calls[j].fetched)
  /\ \A i \in Returned :
       (psvc.calls[i].kind = "getFreshPrice"
        /\ psvc.calls[i].asset \in KnownAssets)
       => /\ psvc.calls[i].fetched
          /\ psvc.calls[i].held # NoReading
               => psvc.calls[i].res # psvc.calls[i].held

\* C17: a call whose fetch failed returned the most recent reading cached
\* for the asset if there was one, however old, and otherwise a reading
\* tagged mock with the asset's synthetic price
C17_FailureFallback ==
  \A i \in Returned :
    psvc.calls[i].outcome = "failed"
    => IF psvc.calls[i].prior # NoReading
         THEN psvc.calls[i].res = psvc.calls[i].prior
         ELSE /\ psvc.calls[i].res.source = "mock"
              /\ psvc.calls[i].res.price - MockBase(psvc.calls[i].key)
                   \in -25 .. 25

(***************************************************************************)
(* Properties of the EdgeTreasury contract (SpecTreasury)                  *)
(***************************************************************************)
\* the largest r with r * 10000 <= amount * rakeBps
FloorShare(amount, rakeBps) ==
  CHOOSE r \in 0 .. amount :
    /\ r * 10000 <= amount * rakeBps
    /\ (r + 1) * 10000 > amount * rakeBps

\* a settleMatch transaction that did not revert
SettleSucceeds(w, amount) ==
  /\ \E c \in Callers : EdgeTreasury_settleMatch(c, w, amount)
  /\ ~chain'.lastTx.reverted

\* C18: every successful settleMatch(winner, amount, matchId) pays the
\* winner amount - rake with rake = floor(amount * rakeBps / 10000) and adds
\* exactly rake to protocolRevenue; rakeBps is at most 500 in every reachable
\* state; a setRake above 500 is rejected and leaves rakeBps unchanged
C18_RakeSplit ==
  /\ [](chain.rakeBps <= 500)
  /\ [][/\ \A w \in Winners, amount \in Amounts :
            SettleSucceeds(w, amount) =>
              LET rake == FloorShare(amount, chain.rakeBps)
              IN /\ chain'.balanceOf[w] = chain.balanceOf[w] + amount - rake
                 /\ chain'.protocolRevenue = chain.protocolRevenue + rake
                 /\ chain'.balanceOf[TreasuryAddress]
                      = chain.balanceOf[TreasuryAddress] - (amount - rake)
        /\ \A c \in Callers, r \in RakeValues :
            (r > 500 /\ EdgeTreasury_setRake(c, r)) =>
              /\ chain'.lastTx = [op |-> "setRake", reverted |-> TRUE]
              /\ chain'.rakeBps = chain.rakeBps]_vars

\* C18 witness: a settlement of 39 at the maximum rake of 5% went through;
\* its rake of 1.95 was rounded down to 1
C18_Witness ==
  /\ chain.lastTx = [op |-> "settleMatch", reverted |-> FALSE]
  /\ chain.rakeBps = 500
  /\ chain.totalVolume = 39
  /\ chain.protocolRevenue = 1

(***************************************************************************)
(* Properties of the settlement bridge (SpecBridge)                        *)
(***************************************************************************)
\* C19: a match that ends in a draw is settled with two refund calls, one
\* per player, each for the match's stake, the second made whatever the
\* first returned; the settlement is confirmed if and only if both calls
\* returned confirmed, otherwise it is failed and SETTLEMENT_FAILED is sent
C19_DrawRefunds ==
  /\ (bridge.phase \in {"awaiting", "settled"} /\ bridge.match.winner = None) =>
       /\ Len(bridge.calls) \in {1, 2}
       /\ \A k \in 1 .. Len(bridge.calls) :
            /\ bridge.calls[k].fn = "refundStake"
            /\ bridge.calls[k].amount = bridge.match.stake
       /\ bridge.calls[1].to = "e1"
       /\ Len(bridge.calls) = 2 =>
            /\ bridge.calls[1].status # "pending"
            /\ bridge.calls[2].to = "e2"
  /\ (bridge.phase = "settled" /\ bridge.match.winner = None) =>
       LET bothConfirmed == /\ bridge.calls[1].status = "confirmed"
                            /\ bridge.calls[2].status = "confirmed"
       IN /\ Len(bridge.calls) = 2
          /\ bridge.match.status = SETTLED
          /\ bridge.match.settlement.status
               = IF bothConfirmed THEN "confirmed" ELSE "failed"
          /\ bridge.sent[Len(bridge.sent)]
               = IF bothConfirmed THEN "SETTLEMENT_COMPLETE"
                 ELSE "SETTLEMENT_FAILED"

\* C19 witness: player A's refund failed, player B's refund was still made
\* and confirmed, and the settlement is failed
C19_Witness ==
  /\ bridge.phase = "settled"
  /\ bridge.match.winner = None
  /\ bridge.calls[1].status = "failed"
  /\ bridge.calls[2].status = "confirmed"
  /\ bridge.calls[2].submitted
  /\ bridge.match.settlement.status = "failed"

\* C20: with an unconfigured bridge every call (winner settlement and draw
\* refund) submits nothing and returns a result that is not confirmed, with
\* the locally computed amounts, and a match settled in that mode never has
\* a confirmed settlement
C20_UnconfiguredNeverConfirms ==
  (bridge.phase \in {"awaiting", "settled"} /\ ~bridge.configured) =>
    /\ \A k \in 1 .. Len(bridge.calls) :
         /\ ~bridge.calls[k].submitted
         /\ bridge.calls[k].status # "confirmed"
    /\ bridge.phase = "settled" =>
         /\ bridge.match.settlement.status # "confirmed"
         /\ bridge.sent[Len(bridge.sent)] = "SETTLEMENT_FAILED"

(***************************************************************************)
(* Specification of handleGameAction alone: one MatchStore record, in any  *)
(* status or absent, under calls with any player, action type and payload  *)
(***************************************************************************)
MaxActionCalls == 2
HostGameTypes == {"PREDICTION", "TRADE_DUEL", "MEMORY_GAME"}
HostStatuses == {WAITING, PROPOSED, ACTIVE, COMPLETED, SETTLING, SETTLED}
ActionTypes == {"SUBMIT_PREDICTION", "GAME_ACTION"}
Payloads == [action : {"BUY", "HOLD"}, prediction : EnginePredictions]
HostPrices == {100, 200}

notHost == << coreVars, pred, duel, mem, psvc, chain, bridge >>

\* engine.onStart of the engine getEngine selects: the matchData object
engineOnStart(engine, price) ==
  IF engine = "TRADE_DUEL" THEN TradeDuelData(price)
  ELSE PredictionMatchData(price)

\* engine.onAction of the engine getEngine selects: [ok, data]
engineOnAction(engine, match, data, playerId, actionType, payload, price) ==
  IF engine = "TRADE_DUEL"
    THEN IF actionType # "GAME_ACTION" THEN [ok |-> FALSE, data |-> data]
         ELSE duelOnAction(match, data, playerId, payload.action, price)
  ELSE IF actionType # "SUBMIT_PREDICTION" THEN [ok |-> FALSE, data |-> data]
       ELSE onAction(match, data, playerId, payload.prediction)

\* the syncedFields of handleGameAction merged into the record; the trade
\* duel data has no prediction fields and a null endPrice until completion
mergeSynced(match, data) ==
  IF "predictionA" \in DOMAIN data THEN syncedFields(match, data)
  ELSE [match EXCEPT !.startPrice = data.startPrice]

\* handleGameAction that only requires the match to exist
gameActionAnyStatus(match, data, playerId, actionType, payload, price) ==
  IF match.status = None \/ match.matchData = 0
    THEN [ret |-> FALSE, match |-> match, data |-> data, events |-> << >>]
  ELSE LET act == engineOnAction(getEngine(match.gameType), match, data,
                                 playerId, actionType, payload, price)
       IN IF act.ok
            THEN [ret |-> TRUE, match |-> mergeSynced(match, act.data),
                  data |-> act.data,
                  events |-> << [type |-> "GAME_STATE_UPDATE",
                                 to |-> Parties(match)] >>]
            ELSE [ret |-> FALSE, match |-> match, data |-> act.data,
                  events |-> << >>]

\* MatchService.handleGameAction on the stored record and its matchData
\* object: the value returned, the record and object afterwards, the events
gameAction(match, data, playerId, actionType, payload, price) ==
  IF match.status = None \/ match.status # ACTIVE
    THEN [ret |-> FALSE, match |-> match, data |-> data, events |-> << >>]
  ELSE LET act == engineOnAction(getEngine(match.gameType), match, data,
                                 playerId, actionType, payload, price)
       IN IF act.ok
            THEN [ret |-> TRUE, match |-> mergeSynced(match, act.data),
                  data |-> act.data,
                  events |-> << [type |-> "GAME_STATE_UPDATE",
                                 to |-> Parties(match)] >>]
            ELSE [ret |-> FALSE, match |-> match, data |-> act.data,
                  events |-> << >>]

\* the store holds no record for the match id
HostMissing ==
  /\ host.phase = "empty"
  /\ host' = [phase |-> "loaded", match |-> NoMatch, data |-> NoData,
              ret |-> FALSE, events |-> << >>, calls |-> 0]
  /\ UNCHANGED notHost

\* the store holds a record in the given status: without matchData before
\* startMatch, with the engine's start state from startMatch on
HostLoad(status, gameType, price) ==
  /\ host.phase = "empty"
  /\ LET started == status \notin {WAITING, PROPOSED}
         created == NewMatch("e1", 1, gameType, "ETH/USD")
     IN host' = [phase |-> "loaded",
                 match |-> [created EXCEPT
                              !.playerB = IF status = WAITING THEN None ELSE "e2",
                              !.status = status,
                              !.startPrice = IF started THEN price ELSE 0,
                              !.matchData = IF started THEN 1 ELSE 0],
                 data |-> IF started
                            THEN engineOnStart(getEngine(gameType), price)
                            ELSE NoData,
                 ret |-> FALSE, events |-> << >>, calls |-> 0]
  /\ UNCHANGED notHost

\* one call of handleGameAction; ret is the value it returned
HostCall(playerId, actionType, payload, price) ==
  /\ host.phase = "loaded"
  /\ host.calls < MaxActionCalls
  /\ LET r == gameAction(host.match, host.data, playerId, actionType, payload,
                         price)
     IN host' = [host EXCEPT !.match = r.match, !.data = r.data,
                             !.ret = r.ret, !.events = r.events,
                             !.calls = @ + 1]
  /\ UNCHANGED notHost

NextAction ==
  \/ HostMissing
  \/ \E status \in HostStatuses, gameType \in HostGameTypes, price \in HostPrices :
       HostLoad(status, gameType, price)
  \/ \E playerId \in EnginePlayers, actionType \in ActionTypes,
        payload \in Payloads, price \in HostPrices :
       HostCall(playerId, actionType, payload, price)

SpecAction == Init /\ [][NextAction]_vars

\* C21: a handleGameAction call for a match that does not exist or is not
\* ACTIVE returns false, leaves the record and its matchData as they were
\* and sends no event
C21_OnlyActiveTakesActions ==
  [][(/\ host.phase = "loaded"
      /\ host'.calls = host.calls + 1
      /\ host.match.status # ACTIVE)
       => /\ host'.ret = FALSE
          /\ host'.match = host.match
          /\ host'.data = host.data
          /\ host'.events = << >>]_vars

\* C21 witness: a call was rejected for a COMPLETED match holding engine data
C21_Witness ==
  /\ host.phase = "loaded"
  /\ host.calls > 0
  /\ host.match.status = COMPLETED
  /\ host.data # NoData
  /\ host.ret = FALSE

\* C22: when the memory-match engine's onAction returns failure, the engine
\* data, every field of both players' state included, is what it was before
\* the call
C22_RejectedActionIsFrame ==
  [][(mem.phase = "active" /\ mem'.phase = "active" /\ mem'.lastOk = FALSE)
       => mem'.data = mem.data]_vars

\* C23: a client message that fails validation changes neither the
\* connection registry nor the queue nor the match store, and its ERROR
\* event is delivered to the connection that sent it
C23_InvalidMessageIsFrame ==
  [][\A c \in Conns, stake \in BadStakes, g \in GameTypes, a \in Assets,
        w \in Wallets \cup {None} :
       JoinQueue(c, stake, g, a, w)
         => /\ players' = players
            /\ socketToPlayer' = socketToPlayer
            /\ queues' = queues
            /\ matches' = matches
            /\ \E k \in 1 .. Len(sent') :
                 /\ sent'[k].type = "ERROR"
                 /\ \E id \in sent'[k].delivered : players'[id].socket = c]_vars

\* C24: a settleMatch sent by an account other than the owner is rejected and
\* leaves every balance, protocolRevenue, totalMatchesSettled and totalVolume
\* unchanged
C24_OnlyOwnerSettles ==
  [][\A c \in Callers \ {Owner}, w \in Winners, amount \in Amounts :
       EdgeTreasury_settleMatch(c, w, amount)
         => /\ chain'.lastTx = [op |-> "settleMatch", reverted |-> TRUE]
            /\ chain'.balanceOf = chain.balanceOf
            /\ chain'.protocolRevenue = chain.protocolRevenue
            /\ chain'.totalMatchesSettled = chain.totalMatchesSettled
            /\ chain'.totalVolume = chain.totalVolume]_vars

\* C24 witness: a player's settleMatch was rejected while the treasury held
\* a whole prize pool
C24_Witness ==
  /\ chain.sender = "p1"
  /\ chain.lastTx = [op |-> "settleMatch", reverted |-> TRUE]
  /\ chain.balanceOf[TreasuryAddress] = 100

\* C25: the treasury's token balance is never below protocolRevenue, so the
\* owner's withdrawRevenue(to, amount) with amount <= protocolRevenue goes
\* through, moving amount to the recipient and out of protocolRevenue, and
\* one above protocolRevenue is rejected without a state change
C25_RevenueWithdrawable ==
  /\ [](chain.balanceOf[TreasuryAddress] >= chain.protocolRevenue)
  /\ [][\A amount \in RevenueAmounts :
          EdgeTreasury_withdrawRevenue(Owner, Owner, amount)
            => IF amount <= chain.protocolRevenue
                 THEN /\ ~chain'.lastTx.reverted
                      /\ chain'.protocolRevenue = chain.protocolRevenue - amount
                      /\ chain'.balanceOf[Owner] = chain.balanceOf[Owner] + amount
                 ELSE /\ chain'.lastTx.reverted
                      /\ chain'.balanceOf = chain.balanceOf
                      /\ chain'.protocolRevenue = chain.protocolRevenue]_vars

\* C26: for each match at most one duration timer is pending, an
\* accept-timeout is pending only while the match is PROPOSED and a duration
\* timer only while it is ACTIVE
C26_TimersSuperseded ==
  \A m \in MatchIds :
    /\ Cardinality(durPending[m]) <= 1
    /\ proposalTimers[m] = "armed"
         => Exists(matches, m) /\ matches[m].status = PROPOSED
    /\ durPending[m] # {}
         => Exists(matches, m) /\ matches[m].status = ACTIVE

\* nothing is written, armed or sent for the match in this step
NoEffect(m) ==
  /\ matches'[m] = matches[m]
  /\ durPending'[m] = durPending[m]
  /\ activeTimers'[m] = activeTimers[m]
  /\ settleTimers'[m] = settleTimers[m]
  /\ sent' = << >>

\* C27: when startMatch, completeMatch or settleMatch resumes after its
\* await and the match was deleted or is no longer in the status the handler
\* found it in (or stored itself) before the await, the handler writes no
\* status, arms no timer and sends nothing for that match
C27_RevalidatedAfterAwait ==
  [][\A m \in MatchIds :
       /\ ((\E price \in StartPrices : startMatch(m, price))
             /\ ~InStatus(m, {PROPOSED})) => NoEffect(m)
       /\ ((\E g \in Gens, price \in Prices : completeMatch(m, g, price))
             /\ ~InStatus(m, {ACTIVE})) => NoEffect(m)
       /\ ((\E ph \in SettlePhases, r \in RefundResults : settleMatch(m, ph, r))
             /\ ~InStatus(m, {SETTLING})) => NoEffect(m)]_vars

\* C28: an acceptance set is stored for a match id only if that match exists
\* and its status is PROPOSED
C28_AcceptanceOnlyWhileProposed ==
  \A m \in MatchIds : acceptedPlayers[m] # {} => InStatus(m, {PROPOSED})

(***************************************************************************)
(* Specification of the connection identities: connections come and go    *)
(* and send JOIN_QUEUE with any address or none, and LEAVE_QUEUE           *)
(***************************************************************************)
NextIdentity ==
  \/ \E c \in Conns : Connect(c)
  \/ \E c \in Conns : SocketDrop(c)
  \/ \E c \in Conns : CloseEvent(c)
  \/ \E c \in Conns, stake \in Stakes, g \in GameTypes, a \in Assets,
        w \in Addresses \cup {None} : JoinQueue(c, stake, g, a, w)
  \/ \E c \in Conns : LeaveQueue(c)

SpecIdentity == Init /\ [][NextIdentity]_vars

\* C29: once a connection's player id is a wallet-bound id, no later
\* JOIN_QUEUE changes it again while the connection is registered
C29_PromotedOnce ==
  [][\A c \in Conns :
       (/\ socketToPlayer[c] \in Addresses
        /\ socketToPlayer'[c] # None)
         => socketToPlayer'[c] = socketToPlayer[c]]_vars

\* C30: for every match that is ACTIVE or later, the record's startPrice,
\* endPrice, predictionA and predictionB equal the fields of its matchData
\* wherever matchData defines them
C30_MirrorFields ==
  \A m \in MatchIds :
    InStatus(m, {ACTIVE, COMPLETED, SETTLING, SETTLED}) =>
      LET match == matches[m]
          data == dataObjs[m][match.matchData]
      IN /\ match.predictionA = data.predictionA
         /\ match.predictionB = data.predictionB
         /\ data.startPrice # 0 => match.startPrice = data.startPrice
         /\ data.endPrice # 0 => match.endPrice = data.endPrice

\* C31: every match in SETTLING or SETTLED carries a settlement record, and
\* a record whose status is confirmed or failed is never modified again
C31_SettlementRecord ==
  /\ [](\A m \in MatchIds :
          InStatus(m, {SETTLING, SETTLED}) => matches[m].settlement # None)
  /\ [][\A m \in MatchIds :
          (Exists(matches, m) /\ matches[m].settlement # None)
            => /\ Exists(matches', m)
               /\ matches'[m].settlement = matches[m].settlement]_vars

\* the fields of the matchData object the engine of a game type creates
ShapeOf(gameType) ==
  IF gameType = "MEMORY_GAME"
    THEN DOMAIN MemoryGameData([k \in 0 .. PatternLen - 1 |-> 0])
  ELSE IF gameType = "TRADE_DUEL" THEN DOMAIN TradeDuelData(1)
  ELSE DOMAIN PredictionMatchData(1)

\* C32: the matchData of every started match has the shape defined by the
\* engine of the match's own game type, and an action on it is handled by
\* that engine
C32_OwnEngine ==
  (host.phase = "loaded" /\ host.match.status # None /\ host.match.matchData # 0)
    => /\ getEngine(host.match.gameType) = host.match.gameType
       /\ DOMAIN host.data = ShapeOf(host.match.gameType)

\* the trade-duel state of a party in a matchData object
DuelStateOf(data, id) ==
  IF id = "e1" THEN data.playerAState ELSE data.playerBState

\* what a position is worth in cash at a price: the margin it was opened
\* with plus its profit or loss, the cash held when there is no position
Realized(state, price) ==
  IF state.position.side = None THEN state.virtualBalance
  ELSE LET size == state.position.size
           entry == state.position.entryPrice
           pnl == IF state.position.side = "LONG"
                    THEN size * (price - entry)
                    ELSE size * (entry - price)
       IN (size * entry + pnl) \div SizeScale

\* C33: onStart gives both players the same fixed balance and no position; a
\* BUY (SELL) of a player closes the position held at the action price and
\* opens a LONG (SHORT) entered at that price with the whole realized
\* balance as margin, leaving no cash, and leaves the other player's state
\* unchanged
C33_SinglePosition ==
  [][/\ \A price \in DuelPrices :
          (duel.phase = "idle" /\ DuelOnStart(price))
            => /\ duel'.data.playerAState = duel'.data.playerBState
               /\ duel'.data.playerAState.virtualBalance = INITIAL_BALANCE
               /\ duel'.data.playerAState.position.side = None
     /\ \A id \in {"e1", "e2"}, a \in {"BUY", "SELL"}, price \in DuelPrices :
          (duel'.phase = "active" /\ DuelOnAction(id, a, price))
            => LET before == DuelStateOf(duel.data, id)
                   after == DuelStateOf(duel'.data, id)
                   other == IF id = "e1" THEN "e2" ELSE "e1"
               IN /\ after.position.side = IF a = "BUY" THEN "LONG" ELSE "SHORT"
                  /\ after.position.entryPrice = price
                  /\ after.position.size
                       = (Realized(before, price) * SizeScale) \div price
                  /\ after.virtualBalance = 0
                  /\ DuelStateOf(duel'.data, other) = DuelStateOf(duel.data, other)
                  /\ duel'.data.startPrice = duel.data.startPrice]_vars

\* C33 witness: the first player went short at 50 and then bought at 100,
\* which closed the short at a loss before the long was opened; the second
\* player has not traded
C33_Witness ==
  /\ duel.phase = "active"
  /\ duel.data.playerAState.opened = 2
  /\ duel.data.playerAState.position.side = "LONG"
  /\ duel.data.playerAState.position.entryPrice = 100
  /\ duel.data.playerAState.position.size = 0
  /\ duel.data.playerAState.virtualBalance = 0
  /\ duel.data.playerBState = InitialPlayerState

\* the status in which a match is when an event of the given type is due:
\* none before MATCH_PROPOSED, and each later event is sent by the step that
\* leaves the status the previous event announced
DueIn(type) ==
  CASE type = "MATCH_PROPOSED" -> None
    [] type = "START_MATCH" -> PROPOSED
    [] type = "MATCH_RESULT" -> ACTIVE
    [] type = "SETTLEMENT_STARTED" -> COMPLETED
    [] OTHER -> SETTLING

LifecycleEvents ==
  {"MATCH_PROPOSED", "START_MATCH", "MATCH_RESULT", "SETTLEMENT_STARTED",
   "SETTLEMENT_COMPLETE", "SETTLEMENT_FAILED"}

\* C34: the events of a match are emitted in the order MATCH_PROPOSED,
\* START_MATCH, MATCH_RESULT, SETTLEMENT_STARTED, then one of
\* SETTLEMENT_COMPLETE and SETTLEMENT_FAILED, each at most once: every such
\* event is sent by a step that finds the match in the status its
\* predecessor announced and moves it on, and a step sends at most one of them
C34_EventOrder ==
  [][\A m \in MatchIds :
       LET evs == { k \in 1 .. Len(sent') :
                      sent'[k].matchId = m /\ sent'[k].type \in LifecycleEvents }
       IN /\ Cardinality(evs) <= 1
          /\ \A k \in evs :
               /\ matches[m].status = DueIn(sent'[k].type)
               /\ matches'[m].status # matches[m].status]_vars

\* C35: a flip by one player leaves the opponent's state and the board
\* layout unchanged, and whether it is accepted depends on the acting
\* player's own matched and flipped cards only, so a card the opponent has
\* matched or flipped can still be flipped
C35_SoloRace ==
  [][\A id \in {"e1", "e2"}, card \in FlipCards :
       (card >= 0 /\ card < GridSize /\ MemOnAction(id, card))
         => LET opponent == IF id = "e1" THEN "e2" ELSE "e1"
                own == MemStateOf(mem.data, id)
                held == IF Len(own.flippedCards) >= 2 THEN {}
                        ELSE Elements(own.flippedCards)
            IN /\ MemStateOf(mem'.data, opponent) = MemStateOf(mem.data, opponent)
               /\ mem'.data.grid = mem.data.grid
               /\ mem'.lastOk = (card \notin Elements(own.matchedPairs) \cup held)]_vars

\* C35 witness: the second player has flipped card 0, which the first player
\* has already matched
C35_Witness ==
  /\ mem.phase = "active"
  /\ mem.lastOk
  /\ 0 \in Elements(mem.data.playerAState.matchedPairs)
  /\ 0 \in Elements(mem.data.playerBState.flippedCards)

\* C40: each player's state has at most 2 flipped cards, no flipped card in
\* the matched set, a matched set without repetition holding only indices
\* 0..29 and exactly twice as many of them as the score (so at most 15), and
\* the two cards of every matched pair carry the same symbol
C40_PlayerStateShape ==
  mem.phase # "idle" =>
    \A id \in {"e1", "e2"} :
      LET st == MemStateOf(mem.data, id)
          matched == st.matchedPairs
      IN /\ Len(st.flippedCards) <= 2
         /\ Elements(st.flippedCards) \cap Elements(matched) = {}
         /\ Cardinality(Elements(matched)) = Len(matched)
         /\ Elements(matched) \subseteq 0 .. 29
         /\ Len(matched) = 2 * st.score
         /\ st.score <= 15
         /\ \A k \in 1 .. st.score :
              At(mem.data.grid, matched[2 * k - 1])
                = At(mem.data.grid, matched[2 * k])

C38_NotPairedWithItself ==
  [][\A c \in Conns, stake \in Stakes, g \in GameTypes, a \in Assets,
        w \in Addresses \cup {None} :
          (JoinQueue(c, stake, g, a, w) /\ matchCount' # matchCount)
            => LET match == matches'[matchCount']
               IN /\ match.playerA # match.playerB
                  /\ match.playerA # socketToPlayer[c]
                  /\ match.playerA # socketToPlayer'[c]]_vars

\* C39: every queue entry's player id is the id of a registered connection
\* and occurs at most once across all buckets
C39_QueueEntriesLive ==
  /\ \A k \in DOMAIN queues : \A i \in 1 .. Len(queues[k]) :
        Has(players, queues[k][i].playerId)
  /\ \A k1, k2 \in DOMAIN queues :
        \A i \in 1 .. Len(queues[k1]), j \in 1 .. Len(queues[k2]) :
          queues[k1][i].playerId = queues[k2][j].playerId => k1 = k2 /\ i = j

\* the stored matches short of SETTLED that have id as playerA or playerB
OpenMatchesOf(id) ==
  { m \in MatchIds : /\ Exists(matches, m)
                     /\ matches[m].status # SETTLED
                     /\ id \in Parties(matches[m]) }

\* C37: a player identity is a party of at most one stored match short of
\* SETTLED, and a party of such a match has no queue entry
C37_OneOpenMatch ==
  \A id \in Ids :
    /\ Cardinality(OpenMatchesOf(id)) <= 1
    /\ OpenMatchesOf(id) # {} => ~isInQueue(queues, id)
====
